---------------------------- MODULE Spec2Model ----------------------------
(***************************************************************************)
(* State-machine model of the B2B quick-order grid                         *)
(* (lwc/b2bCommerceOrderMatrix/b2bCommerceOrderMatrix.js) and of the       *)
(* quantity validation of its conversational assistant                     *)
(* (lwc/b2bAiAssistant/b2bAiAssistant.js).                                 *)
(*                                                                         *)
(* Conventions                                                             *)
(*  - A quantity is an integer.  The code keeps staged quantities as       *)
(*    strings (String(n)) and reads them back with parseFloat; on the      *)
(*    integers the model uses this round trip returns n, so a map entry    *)
(*    holds the number the string denotes.  The display string qtyValue    *)
(*    is '' exactly when the staged string is missing or '0'; it is        *)
(*    modelled by the number 0 (both are falsy for the readers of          *)
(*    qtyValue), any other string by its number.                           *)
(*  - An optional numeric product field (minQty, maxQty, increment) that   *)
(*    is absent, null or 0 is falsy in `x ? parseFloat(x) : d`; the model  *)
(*    writes 0 for all three.                                              *)
(*  - stock is <<>> when undefined/null/'null' and <<n>> otherwise.        *)
(*  - A JavaScript object used as a map is a function whose DOMAIN is the  *)
(*    set of keys present.                                                 *)
(*  - A name or SKU is a sequence of one-character strings.                *)
(***************************************************************************)
EXTENDS Integers, Sequences, FiniteSets, Bags, TLC

VARIABLES
    masterCatalogData,   \* cache of the full catalog (sequence of products)
    rawProductData,      \* products of the active source
    orderItemsCache,     \* order id -> items of that order
    pastOrdersList,      \* ids of the past orders offered as sources
    inputQty,            \* product id -> staged quantity
    cartDataMap,         \* product id -> quantity in the cart
    promoDataMap,        \* product id -> promotion
    searchTerm,          \* text filter
    products,            \* the line view models built by buildGrid
    isLoading,
    isSaving,
    isPreview,           \* _isPreview
    currentSourceValue,
    pending,             \* bag of the requests in flight, each with what resumes after it
    lastShownItems,      \* assistant: SKUs of the cards shown last
    aiLog,               \* history: what the assistant did with the items of the
                         \* response it has just processed (<<>> after any other step)
    cartCalls            \* history: the addItemsToCart call just made (<<>> after
                         \* any other step)

vars == <<masterCatalogData, rawProductData, orderItemsCache, pastOrdersList,
          inputQty, cartDataMap, promoDataMap, searchTerm, products, isLoading,
          isSaving, isPreview, currentSourceValue, pending, lastShownItems, aiLog,
          cartCalls>>

-----------------------------------------------------------------------------
(* Program constants *)

SOURCE_CATALOG == "catalog"

\* `999999`: the value used for an absent maxQty and for an absent stock
Unbounded == 999999

\* `9000000`: an agent quantity above it asks for all the available stock
MaxSentinel == 9000000

-----------------------------------------------------------------------------
(* Bounds of the model *)

\* largest quantity typed in a quantity field
MaxTyped == 7

\* a staged quantity above this is not raised further by the stepper
MaxStaged == 8

-----------------------------------------------------------------------------
(* Small helpers *)

Max(a, b) == IF a >= b THEN a ELSE b
Min(a, b) == IF a <= b THEN a ELSE b

\* parseFloat(obj[key] || dflt): a stored value is a non-empty string (truthy,
\* '0' included) or a positive number
Get(map, key, dflt) == IF key \in DOMAIN map THEN map[key] ELSE dflt

\* delete obj[key]
Delete(map, key) == [k \in (DOMAIN map) \ {key} |-> map[k]]

\* obj[key] = val
Put(map, key, val) == [k \in (DOMAIN map) \cup {key} |-> IF k = key THEN val ELSE map[k]]

EmptyMap == [k \in {} |-> 0]

SeqToSet(s) == {s[i] : i \in 1..Len(s)}

-----------------------------------------------------------------------------
(* Text: toLowerCase and includes *)

LowerChar(c) ==
    CASE c = "A" -> "a"
      [] c = "B" -> "b"
      [] c = "X" -> "x"
      [] OTHER -> c

ToLowerCase(s) == [i \in 1..Len(s) |-> LowerChar(s[i])]

\* s.includes(t): t occurs in s as a contiguous substring
Includes(s, t) ==
    \E i \in 0..(Len(s) - Len(t)) : \A j \in 1..Len(t) : s[i + j] = t[j]

-----------------------------------------------------------------------------
(* buildGrid: the rules of one line *)

\* prod.minQty ? parseFloat(prod.minQty) : 1
MinOf(prod) == IF prod.minQty # 0 THEN prod.minQty ELSE 1

\* the maximum without the 999999 of an absent one
MaxOfNoDefault(prod) == prod.maxQty

\* prod.maxQty ? parseFloat(prod.maxQty) : 999999
MaxOf(prod) == IF prod.maxQty # 0 THEN prod.maxQty ELSE Unbounded

\* prod.increment ? parseFloat(prod.increment) : 1
IncOf(prod) == IF prod.increment # 0 THEN prod.increment ELSE 1

IsInfiniteStock(prod) == prod.stock = <<>>

PhysicalStock(prod) == IF IsInfiniteStock(prod) THEN Unbounded ELSE prod.stock[1]

\* Math.abs(ratio - Math.round(ratio)) > 0.0001 with ratio = val / inc, on
\* integers: the distance of val / inc to the nearest integer is
\* min(r, inc - r) / inc for r = val % inc
OffIncrement(val, inc) ==
    LET r == val % inc IN Min(r, inc - r) * 10000 > inc

HasErrorStockAtLeast(val, min, max, inc, physicalStock, inCart) ==
    \/ val >= Max(0, physicalStock - inCart)
    \/ /\ val > 0
       /\ \/ val < min
          \/ max # 0 /\ val > max
          \/ OffIncrement(val, inc)

HasErrorNoMax(val, min, max, inc, physicalStock, inCart) ==
    \/ val > Max(0, physicalStock - inCart)
    \/ /\ val > 0
       /\ \/ val < min
          \/ OffIncrement(val, inc)

\* hasError of buildGrid
HasError(val, min, max, inc, physicalStock, inCart) ==
    \/ val > Max(0, physicalStock - inCart)
    \/ /\ val > 0
       /\ \/ val < min
          \/ max # 0 /\ val > max
          \/ OffIncrement(val, inc)

FinalLimitNoFloor(max, physicalStock, inCart) ==
    Min(max - inCart, Max(0, physicalStock - inCart))

\* finalLimit of buildGrid
FinalLimit(max, physicalStock, inCart) ==
    Min(Max(0, max - inCart), Max(0, physicalStock - inCart))

-----------------------------------------------------------------------------
(* Prices.  A price is a number of quarters of a cent, so that a price can   *)
(* have more than two decimals (100.0025 is 40001); toFixed(2) and           *)
(* Math.round(x * 100) / 100 round a price to the nearest cent, 4 quarters.  *)

\* num / den rounded to the nearest integer, halves up
RoundDiv(num, den) == (num \div den) + (IF 2 * (num % den) >= den THEN 1 ELSE 0)

\* the price num / den rounded to the cent: (num / den).toFixed(2)
Fixed2(num, den) == RoundDiv(num, 4 * den) * 4

\* this.promoDataMap[pId] || {}
NoPromo == [price |-> <<>>, name |-> ""]

\* promoPrice != null && !isNaN(promoPrice) && basePrice > 0 and
\* promoPrice < basePrice
PromoApplies(basePrice, promoPrice) ==
    promoPrice # <<>> /\ basePrice > 0 /\ promoPrice[1] < basePrice

\* price * discountRatio to the cent, discountRatio = promoPrice / basePrice
\* when the promotion applies and 1 otherwise
Discounted(price, basePrice, promoPrice) ==
    IF PromoApplies(basePrice, promoPrice)
    THEN Fixed2(price * promoPrice[1], basePrice) ELSE Fixed2(price, 1)

\* tiers.filter(t => quantity >= t.min), lowest min first
TierAtLowest(priceRanges, quantity) ==
    LET Reached(t) == quantity >= t.min
        reached == SelectSeq(priceRanges, Reached)
    IN  IF reached = <<>> THEN <<>>
        ELSE <<reached[CHOOSE i \in 1..Len(reached) :
                   /\ \A j \in 1..Len(reached) : reached[j].min >= reached[i].min
                   /\ \A j \in 1..(i - 1) : reached[j].min > reached[i].min]>>

\* tiers.filter(t => quantity >= t.min).sort((a, b) => b.min - a.min)[0]:
\* <<>> when no tier is reached, else the first tier of the greatest min
TierAt(priceRanges, quantity) ==
    LET Reached(t) == quantity >= t.min
        reached == SelectSeq(priceRanges, Reached)
    IN  IF reached = <<>> THEN <<>>
        ELSE <<reached[CHOOSE i \in 1..Len(reached) :
                   /\ \A j \in 1..Len(reached) : reached[j].min <= reached[i].min
                   /\ \A j \in 1..(i - 1) : reached[j].min < reached[i].min]>>

\* currentPrice of calculateFinalPrice before the promotion
TierPrice(details, quantity) ==
    IF details.priceRanges # <<>> /\ quantity > 0 /\ TierAt(details.priceRanges, quantity) # <<>>
    THEN TierAt(details.priceRanges, quantity)[1].price
    ELSE details.unitPrice

\* listPrice of calculateFinalPrice
ListPrice(details) == IF details.listPrice # 0 THEN details.listPrice ELSE details.unitPrice

\* calculateFinalPrice with the promotion applied whenever there is one
CalculateFinalPriceAnyPromo(details, quantity, promoPrice) ==
    [ unitPrice |-> IF promoPrice # <<>> /\ details.unitPrice > 0
                    THEN Fixed2(TierPrice(details, quantity) * promoPrice[1], details.unitPrice)
                    ELSE Fixed2(TierPrice(details, quantity), 1),
      listPrice |-> Fixed2(ListPrice(details), 1),
      showListPrice |-> ListPrice(details) >
          (IF promoPrice # <<>> /\ details.unitPrice > 0
           THEN Fixed2(TierPrice(details, quantity) * promoPrice[1], details.unitPrice)
           ELSE Fixed2(TierPrice(details, quantity), 1)),
      isPromo |-> promoPrice # <<>> /\ details.unitPrice > 0 ]

\* calculateFinalPrice; isPromo stands for the class 'price-promo' of
\* priceClass.  unitPrice and listPrice are the texts of toFixed(2);
\* showListPrice compares listPrice as it is with roundedCurrent.
CalculateFinalPrice(details, quantity, promoPrice) ==
    [ unitPrice |-> Discounted(TierPrice(details, quantity), details.unitPrice, promoPrice),
      listPrice |-> Fixed2(ListPrice(details), 1),
      showListPrice |-> ListPrice(details) >
          Discounted(TierPrice(details, quantity), details.unitPrice, promoPrice),
      isPromo |-> PromoApplies(details.unitPrice, promoPrice) ]

\* generateDynamicTiers without the promotion ratio
GenerateDynamicTiersNoRatio(details, quantity, promoPrice) ==
    IF details.priceRanges = <<>> THEN <<>>
    ELSE [i \in 1..Len(details.priceRanges) |->
            [ key |-> details.priceRanges[i].min,
              max |-> details.priceRanges[i].max,
              price |-> Fixed2(details.priceRanges[i].price, 1),
              active |-> /\ TierAt(details.priceRanges, quantity) # <<>>
                         /\ TierAt(details.priceRanges, quantity)[1].min =
                                details.priceRanges[i].min ]]

\* generateDynamicTiers: <<>> is null; an entry's label is made of min, max
\* and price, 'tier-active' of its cssClass is the flag active
GenerateDynamicTiers(details, quantity, promoPrice) ==
    IF details.priceRanges = <<>> THEN <<>>
    ELSE [i \in 1..Len(details.priceRanges) |->
            [ key |-> details.priceRanges[i].min,
              max |-> details.priceRanges[i].max,
              price |-> Discounted(details.priceRanges[i].price, details.unitPrice, promoPrice),
              active |-> /\ TierAt(details.priceRanges, quantity) # <<>>
                         /\ TierAt(details.priceRanges, quantity)[1].min =
                                details.priceRanges[i].min ]]

\* the quantity priced without the 1 assumed for an empty line
EvaluatedQtyNoPreview(currentInputVal, inCart) == currentInputVal + inCart

\* (currentInputVal || 1) + inCart
EvaluatedQty(currentInputVal, inCart) ==
    (IF currentInputVal = 0 THEN 1 ELSE currentInputVal) + inCart

\* the fields of a line that come from the prices and the promotion
PriceFields(priceCalc, promoData, tierList) ==
    [ displayUnitPrice |-> priceCalc.unitPrice,
      displayListPrice |-> priceCalc.listPrice,
      showListPrice |-> priceCalc.showListPrice,
      isPromo |-> priceCalc.isPromo,
      promoName |-> promoData.name,
      tierList |-> tierList ]

\* the price fields of the line of prod
PricesOf(prod, currentInputVal, inCart, promoData) ==
    PriceFields(
        CalculateFinalPrice(prod, EvaluatedQty(currentInputVal, inCart), promoData.price),
        promoData,
        GenerateDynamicTiers(prod, EvaluatedQty(currentInputVal, inCart), promoData.price))

-----------------------------------------------------------------------------
(* generateRuleItems: the badges of a line.  A badge is its key, the number  *)
(* of its label and the flag reached for the class 'rule-reached'; the       *)
(* empty sequence stands for null.                                           *)

Badge(key, n, reached) == [key |-> key, n |-> n, reached |-> reached]

\* generateRuleItems with the maximum flagged only once it is exceeded
GenerateRuleItemsReachedBeyond(details, currentInputQty, currentCartQty) ==
    (IF details.minQty > 1 THEN <<Badge("min", details.minQty, FALSE)>> ELSE <<>>)
    \o (IF details.maxQty # 0 /\ details.maxQty < Unbounded
        THEN <<Badge("max", details.maxQty,
                     currentInputQty + currentCartQty > details.maxQty)>>
        ELSE <<>>)
    \o (IF details.increment > 1 THEN <<Badge("inc", details.increment, FALSE)>> ELSE <<>>)

\* generateRuleItems
GenerateRuleItems(details, currentInputQty, currentCartQty) ==
    (IF details.minQty > 1 THEN <<Badge("min", details.minQty, FALSE)>> ELSE <<>>)
    \o (IF details.maxQty # 0 /\ details.maxQty < Unbounded
        THEN <<Badge("max", details.maxQty,
                     currentInputQty + currentCartQty >= details.maxQty)>>
        ELSE <<>>)
    \o (IF details.increment > 1 THEN <<Badge("inc", details.increment, FALSE)>> ELSE <<>>)

-----------------------------------------------------------------------------
(* buildGrid: the line *)

\* one element of the list buildGrid assigns to this.products
BuildLine(prod, inQty, cartMap, promoMap) ==
    LET currentInputVal == Get(inQty, prod.id, 0)
        inCart == Get(cartMap, prod.id, 0)
        min == MinOf(prod)
        max == MaxOf(prod)
        inc == IncOf(prod)
        physicalStock == PhysicalStock(prod)
    IN  [ id |-> prod.id, name |-> prod.name, sku |-> prod.sku,
          minQty |-> prod.minQty, maxQty |-> prod.maxQty,
          increment |-> prod.increment, stock |-> prod.stock,
          qtyValue |-> currentInputVal,
          cartQty |-> IF inCart > 0 THEN inCart ELSE 0,
          min |-> min, max |-> max, inc |-> inc,
          finalLimit |-> FinalLimit(max, physicalStock, inCart),
          isError |-> HasError(currentInputVal, min, max, inc, physicalStock, inCart),
          unitPrice |-> prod.unitPrice, listPrice |-> prod.listPrice,
          priceRanges |-> prod.priceRanges,
          ruleList |-> GenerateRuleItems(
              [minQty |-> min, maxQty |-> max, increment |-> inc],
              currentInputVal, inCart) ]
        @@ PricesOf(prod, currentInputVal, inCart, Get(promoMap, prod.id, NoPromo))

\* the filter of buildGrid without toLowerCase
MatchesSearchCaseSensitive(prod, term) ==
    \/ Includes(prod.name, term)
    \/ Includes(prod.sku, term)

\* the filter of buildGrid
MatchesSearch(prod, term) ==
    \/ Includes(ToLowerCase(prod.name), ToLowerCase(term))
    \/ Includes(ToLowerCase(prod.sku), ToLowerCase(term))

\* the value buildGrid assigns to this.products
BuildGrid(raw, inQty, cartMap, promoMap, term) ==
    LET Shown(p) == MatchesSearch(p, term)
        Line(p) == BuildLine(p, inQty, cartMap, promoMap)
        filteredData == SelectSeq(raw, Shown)
    IN  IF filteredData = <<>> THEN <<>>
        ELSE [i \in 1..Len(filteredData) |-> Line(filteredData[i])]

\* get hasErrors
HasErrors(lines) ==
    \E i \in 1..Len(lines) : lines[i].isError /\ lines[i].qtyValue # 0

-----------------------------------------------------------------------------
(* The component's fields as one record, so that a handler is an operator    *)
(* from the fields before it to the fields after it and handlers compose as  *)
(* they call each other.                                                     *)

Cur ==
    [ masterCatalogData |-> masterCatalogData, rawProductData |-> rawProductData,
      orderItemsCache |-> orderItemsCache, pastOrdersList |-> pastOrdersList,
      inputQty |-> inputQty, cartDataMap |-> cartDataMap, promoDataMap |-> promoDataMap,
      searchTerm |-> searchTerm, products |-> products, isLoading |-> isLoading,
      isSaving |-> isSaving, isPreview |-> isPreview,
      currentSourceValue |-> currentSourceValue, pending |-> pending ]

Becomes(st) ==
    /\ masterCatalogData' = st.masterCatalogData
    /\ rawProductData' = st.rawProductData
    /\ orderItemsCache' = st.orderItemsCache
    /\ pastOrdersList' = st.pastOrdersList
    /\ inputQty' = st.inputQty
    /\ cartDataMap' = st.cartDataMap
    /\ promoDataMap' = st.promoDataMap
    /\ searchTerm' = st.searchTerm
    /\ products' = st.products
    /\ isLoading' = st.isLoading
    /\ isSaving' = st.isSaving
    /\ isPreview' = st.isPreview
    /\ currentSourceValue' = st.currentSourceValue
    /\ pending' = st.pending

\* a step of the grid: the assistant keeps its memory, the history is cleared
GridStep ==
    /\ lastShownItems' = lastShownItems
    /\ aiLog' = <<>>
    /\ cartCalls' = <<>>

\* buildGrid consuming the input quantities it has rendered
RebuildClearingInput(st) ==
    [st EXCEPT !.products =
        BuildGrid(st.rawProductData, st.inputQty, st.cartDataMap, st.promoDataMap,
                  st.searchTerm),
               !.inputQty = EmptyMap]

\* this.buildGrid()
Rebuild(st) ==
    [st EXCEPT !.products =
        BuildGrid(st.rawProductData, st.inputQty, st.cartDataMap, st.promoDataMap,
                  st.searchTerm)]

-----------------------------------------------------------------------------
(* Quantity edits of the grid *)

\* the inputQty updateQty leaves
UpdateQtyMap(inQty, prodId, rawVal) ==
    LET newVal == IF rawVal < 0 THEN 0 ELSE rawVal
    IN  IF newVal = 0 THEN Delete(inQty, prodId) ELSE Put(inQty, prodId, newVal)

\* updateQty
UpdateQty(st, prodId, rawVal) ==
    Rebuild([st EXCEPT !.inputQty = UpdateQtyMap(st.inputQty, prodId, rawVal)])

\* the ids of the rendered lines: the targets of the events of the grid
LineIds == {products[i].id : i \in 1..Len(products)}

\* this.products.find(p => p.id === prodId)
LineOf(prodId) == CHOOSE l \in SeqToSet(products) : l.id = prodId

\* no staged quantity is above n: the guard that keeps the quantities an
\* exploration raises within a bound
StagedWithin(n) == \A id \in DOMAIN inputQty : inputQty[id] <= n

\* handleQtyChange: the field holds text; typed = <<>> is text parseFloat
\* turns into NaN, <<n>> text it turns into n
HandleQtyChange(prodId, typed) ==
    /\ prodId \in LineIds
    /\ Becomes(UpdateQty(Cur, prodId, IF typed = <<>> THEN 0 ELSE typed[1]))
    /\ GridStep

\* the value handleIncrement passes to updateQty, <<>> when it returns early
IncrementTarget(prod, currentVal) ==
    LET newVal == IF currentVal < prod.min THEN prod.min
                  ELSE ((currentVal \div prod.inc) + 1) * prod.inc
    IN  IF prod.max # 0 /\ newVal > prod.max
        THEN (IF currentVal < prod.max THEN <<prod.max>> ELSE <<>>)
        ELSE <<newVal>>

\* handleIncrement
HandleIncrement(prodId) ==
    /\ prodId \in LineIds
    /\ LET target == IncrementTarget(LineOf(prodId), Get(inputQty, prodId, 0))
       IN  Becomes(IF target = <<>> THEN Cur ELSE UpdateQty(Cur, prodId, target[1]))
    /\ GridStep

\* Math.ceil(a / b) for a >= 0, b > 0
CeilDiv(a, b) == (a + b - 1) \div b

\* the value handleDecrement would pass with Math.floor in place of Math.ceil
DecrementTargetFloor(prod, currentVal) ==
    LET newVal == ((currentVal \div prod.inc) - 1) * prod.inc
    IN  IF newVal < prod.min THEN 0 ELSE newVal

\* the value handleDecrement passes to updateQty
DecrementTarget(prod, currentVal) ==
    LET newVal == (CeilDiv(currentVal, prod.inc) - 1) * prod.inc
    IN  IF newVal < prod.min THEN 0 ELSE newVal

\* handleDecrement
HandleDecrement(prodId) ==
    /\ prodId \in LineIds
    /\ Becomes(UpdateQty(Cur, prodId, DecrementTarget(LineOf(prodId), Get(inputQty, prodId, 0))))
    /\ GridStep

\* handleSearchChange
HandleSearchChange(term) ==
    /\ Becomes(Rebuild([Cur EXCEPT !.searchTerm = term]))
    /\ GridStep

-----------------------------------------------------------------------------
(* The grid's listener of the assistant's 'addproduct' event *)

\* rawProductData.find(p => p.sku === sku), as the sequence of at most one
\* element
FindBySku(seq, sku) ==
    LET Same(p) == p.sku = sku
        hits == SelectSeq(seq, Same)
    IN  IF hits = <<>> THEN <<>> ELSE <<hits[1]>>

AiAddProductMapNoClamp(inQty, pId, quantity) ==
    Put(inQty, pId, Get(inQty, pId, 0) + quantity)

\* handleAiAddProduct keeping the entry of the product it found alone
AiAddProductMapAlone(inQty, pId, quantity) ==
    IF Max(0, Get(inQty, pId, 0) + quantity) = 0 THEN EmptyMap
    ELSE Put(EmptyMap, pId, Max(0, Get(inQty, pId, 0) + quantity))

\* the inputQty handleAiAddProduct leaves for the product it found
AiAddProductMap(inQty, pId, quantity) ==
    LET currentQty == Get(inQty, pId, 0)
        newQty == Max(0, currentQty + quantity)
    IN  IF newQty = 0 THEN Delete(inQty, pId) ELSE Put(inQty, pId, newQty)

\* handleAiAddProduct for the event detail {sku, quantity}
AiAddProduct(st, sku, quantity) ==
    LET productFound == FindBySku(st.rawProductData, sku) IN
    IF productFound = <<>> THEN st
    ELSE Rebuild([st EXCEPT !.inputQty = AiAddProductMap(st.inputQty, productFound[1].id, quantity)])

\* an 'addproduct' event reaching the grid
HandleAiAddProduct(sku, quantity) ==
    /\ Becomes(AiAddProduct(Cur, sku, quantity))
    /\ GridStep

-----------------------------------------------------------------------------
(* Requests in flight.  A request is the Apex or commerce-API call an async  *)
(* method is suspended on, with what the method needs to go on after it:     *)
(*   silent    the silentMode of fetchCartDataAndRebuild                     *)
(*   awaitedBy "loadCatalogProducts" when that method awaits the call of     *)
(*             fetchCartDataAndRebuild that made the request                 *)
(*   resume    <<orderId>> when loadOrderProducts(orderId) awaits the        *)
(*             loadCatalogProducts the request belongs to, else <<>>         *)
(*   itemsMap  the quantities the call is given: the itemsMap of             *)
(*             addItemsToCart, the selected quantities of askEinstein's      *)
(*             product context                                               *)
(* Two fields keep the order of the calls to getCartQuantities, which the    *)
(* program does not record:                                                  *)
(*   seq       the rank of the request among those of getCartQuantities in   *)
(*             flight, the oldest being 1 (0 for the other kinds)            *)
(*   overtaken a request of getCartQuantities made after this one has        *)
(*             already been answered and its answer stored                   *)

Request(kind, silent, awaitedBy, resume, orderId, itemsMap) ==
    [ kind |-> kind, silent |-> silent, awaitedBy |-> awaitedBy, resume |-> resume,
      orderId |-> orderId, itemsMap |-> itemsMap, seq |-> 0, overtaken |-> FALSE ]

PlainRequest(kind) == Request(kind, FALSE, "", <<>>, "", EmptyMap)

\* the requests of getCartQuantities in a bag of requests
CartRequests(bag) == {r \in BagToSet(bag) : r.kind = "getCartQuantities"}

\* the request as it joins the bag: one of getCartQuantities takes the rank
\* after those in flight
Ranked(bag, req) ==
    IF req.kind = "getCartQuantities"
    THEN [req EXCEPT !.seq = Cardinality(CartRequests(bag)) + 1]
    ELSE req

\* the requests left once req is answered: those of getCartQuantities made
\* after it move up one rank
Reranked(bag, req) ==
    BagOfAll(LAMBDA r : IF /\ req.kind = "getCartQuantities"
                           /\ r.kind = "getCartQuantities"
                           /\ r.seq > req.seq
                        THEN [r EXCEPT !.seq = @ - 1] ELSE r,
             bag (-) SetToBag({req}))

\* the requests left once the answer to the getCartQuantities request that
\* had rank seq is stored: those made before it are overtaken
Overtaking(bag, seq) ==
    BagOfAll(LAMBDA r : IF r.kind = "getCartQuantities" /\ r.seq < seq
                        THEN [r EXCEPT !.overtaken = TRUE] ELSE r,
             bag)

Issue(st, req) == [st EXCEPT !.pending = @ (+) SetToBag({Ranked(st.pending, req)})]

Settle(st, req) == [st EXCEPT !.pending = Reranked(st.pending, req)]

InFlight(kind) == {r \in BagToSet(pending) : r.kind = kind}

NumPending == BagCardinality(pending)

-----------------------------------------------------------------------------
(* Sorting by name *)

\* position of a character in the collation order of localeCompare: letters
\* by alphabet, a lower-case letter before its upper-case one, digits first
CharRank(c) ==
    CASE c = "1" -> 1 [] c = "2" -> 2
      [] c = "a" -> 11 [] c = "A" -> 12
      [] c = "b" -> 13 [] c = "B" -> 14
      [] c = "x" -> 15 [] c = "X" -> 16
      [] OTHER -> 20

\* a.localeCompare(b) < 0
RECURSIVE NameBefore(_, _)
NameBefore(a, b) ==
    IF b = <<>> THEN FALSE
    ELSE IF a = <<>> THEN TRUE
    ELSE IF CharRank(Head(a)) # CharRank(Head(b)) THEN CharRank(Head(a)) < CharRank(Head(b))
    ELSE NameBefore(Tail(a), Tail(b))

\* the comparator's key: (a.name || '') or (a.name || '').toLowerCase()
NameKey(p, lower) == IF lower THEN ToLowerCase(p.name) ELSE p.name

\* Array.prototype.sort (stable) with the comparator on the names
RECURSIVE InsertSorted(_, _, _)
InsertSorted(x, sorted, lower) ==
    IF sorted = <<>> THEN <<x>>
    ELSE IF NameBefore(NameKey(x, lower), NameKey(Head(sorted), lower)) THEN <<x>> \o sorted
    ELSE <<Head(sorted)>> \o InsertSorted(x, Tail(sorted), lower)

RECURSIVE SortByName(_, _)
SortByName(s, lower) ==
    IF s = <<>> THEN <<>>
    ELSE InsertSorted(s[Len(s)], SortByName(SubSeq(s, 1, Len(s) - 1), lower), lower)

-----------------------------------------------------------------------------
(* Cart quantities and promotions *)

\* fetchCartDataAndRebuild(silentMode), up to its await
FetchCartDataAndRebuild(st, silentMode, awaitedBy, resume) ==
    IF st.rawProductData = <<>> THEN st
    ELSE Issue([st EXCEPT !.isLoading = IF silentMode THEN @ ELSE TRUE],
               Request("getCartQuantities", silentMode, awaitedBy, resume, "", EmptyMap))

\* fetchPromotions, up to its await (webstoreId is set before any load)
FetchPromotions(st) == Issue(st, PlainRequest("getPromotionPricingCollection"))

\* newPromoMap of fetchPromotions: the entries of the result laid over a copy
\* of the map
MergePromo(promo, result) ==
    [k \in (DOMAIN promo) \cup (DOMAIN result) |->
        IF k \in DOMAIN result THEN result[k] ELSE promo[k]]

\* fetchPromotions after its await; outcome <<>> is a rejection or a result
\* without promotionProductEvaluationResults, <<m>> the entries of a result
PromotionsSettled(st, outcome) ==
    IF outcome = <<>> THEN st
    ELSE Rebuild([st EXCEPT !.promoDataMap = MergePromo(st.promoDataMap, outcome[1])])

-----------------------------------------------------------------------------
(* Loading an order's products *)

\* the writes of inputQty[productId] = quantity.toString(), item by item
RECURSIVE StageItems(_, _)
StageItems(inQty, items) ==
    IF items = <<>> THEN inQty
    ELSE StageItems(Put(inQty, Head(items).productId, Head(items).quantity), Tail(items))

ItemIds(items) == {items[i].productId : i \in 1..Len(items)}

\* masterCatalogData.filter(p => orderItemIds.has(p.id))
OfOrder(master, items) == LET In(p) == p.id \in ItemIds(items) IN SelectSeq(master, In)

\* loadOrderProducts from the read of the cache on (after its first line)
LoadOrderProductsCached(st, orderId) ==
    IF orderId \in DOMAIN st.orderItemsCache
    THEN LET cachedItems == st.orderItemsCache[orderId]
             st1 == [st EXCEPT !.inputQty = StageItems(EmptyMap, cachedItems),
                               !.rawProductData =
                                   SortByName(OfOrder(st.masterCatalogData, cachedItems), FALSE)]
         IN  IF st1.rawProductData # <<>>
             THEN LET st2 == FetchCartDataAndRebuild(st1, TRUE, "", <<>>)
                  IN  IF DOMAIN st2.promoDataMap = {} THEN FetchPromotions(st2)
                      ELSE Rebuild(st2)
             ELSE Rebuild(st1)
    ELSE Issue([st EXCEPT !.isLoading = TRUE],
               Request("getOrderProducts", FALSE, "", <<>>, orderId, EmptyMap))

\* what runs once loadCatalogProducts has returned: the loadOrderProducts
\* that awaited it, if any
AfterLoadCatalog(st, resume) ==
    IF resume = <<>> THEN st ELSE LoadOrderProductsCached(st, resume[1])

\* loadCatalogProducts, up to its await
LoadCatalogProducts(st, resume) ==
    Issue([st EXCEPT !.isLoading = TRUE],
          Request("getAllActiveProducts", FALSE, "", resume, "", EmptyMap))

\* loadCatalogProducts after getAllActiveProducts; outcome <<>> is a
\* rejection or a result with an error, <<list>> a result with products
CatalogSettled(st, req, outcome) ==
    IF outcome = <<>>
    THEN AfterLoadCatalog([st EXCEPT !.isLoading = FALSE], req.resume)
    ELSE LET sorted == SortByName(outcome[1], TRUE)
             st1 == [st EXCEPT !.masterCatalogData = sorted, !.rawProductData = sorted]
         IN  IF sorted # <<>>
             THEN FetchCartDataAndRebuild(st1, FALSE, "loadCatalogProducts", req.resume)
             ELSE AfterLoadCatalog([Rebuild(st1) EXCEPT !.isLoading = FALSE], req.resume)

\* fetchCartDataAndRebuild after getCartQuantities, and then the
\* loadCatalogProducts that awaited it; outcome <<>> is a rejection, <<m>>
\* the map returned
CartSettled(st, req, outcome) ==
    LET st1 == IF outcome = <<>> THEN Rebuild(st)
               ELSE Rebuild([st EXCEPT !.cartDataMap = outcome[1],
                                       !.pending = Overtaking(st.pending, req.seq)])
        st2 == IF req.silent THEN st1 ELSE [st1 EXCEPT !.isLoading = FALSE]
    IN  IF req.awaitedBy = "loadCatalogProducts"
        THEN AfterLoadCatalog([FetchPromotions(st2) EXCEPT !.isLoading = FALSE], req.resume)
        ELSE st2

\* loadOrderProducts
LoadOrderProducts(st, orderId) ==
    IF st.masterCatalogData = <<>>
    THEN LoadCatalogProducts([st EXCEPT !.isLoading = TRUE], <<orderId>>)
    ELSE LoadOrderProductsCached(st, orderId)

\* loadOrderProducts after getOrderProducts; outcome <<>> is a rejection,
\* <<list>> the orderQuantities of the result
OrderSettled(st, outcome) ==
    IF outcome = <<>> THEN [st EXCEPT !.isLoading = FALSE]
    ELSE [Rebuild([st EXCEPT !.inputQty = StageItems(st.inputQty, outcome[1]),
                             !.rawProductData = OfOrder(st.masterCatalogData, outcome[1])])
          EXCEPT !.isLoading = FALSE]

\* handleSourceChange without the reset of inputQty
SourceChangeKeepingInput(st, newValue) ==
    LET st1 == [st EXCEPT !.currentSourceValue = newValue, !.searchTerm = <<>>]
    IN  IF newValue = SOURCE_CATALOG
        THEN Rebuild([st1 EXCEPT !.rawProductData = st1.masterCatalogData])
        ELSE LoadOrderProducts(st1, newValue)

\* handleSourceChange
SourceChange(st, newValue) ==
    LET st1 == [st EXCEPT !.currentSourceValue = newValue, !.inputQty = EmptyMap,
                          !.searchTerm = <<>>]
    IN  IF newValue = SOURCE_CATALOG
        THEN Rebuild([st1 EXCEPT !.rawProductData = st1.masterCatalogData])
        ELSE LoadOrderProducts(st1, newValue)

\* loadPastOrdersBackground after getPastOrders: the items grouped by order
OrderCache(allItems) ==
    [o \in {allItems[i].orderId : i \in 1..Len(allItems)} |->
        LET Of(it) == it.orderId = o
            ofOrder == SelectSeq(allItems, Of)
        IN  [i \in 1..Len(ofOrder) |->
                [productId |-> ofOrder[i].productId, quantity |-> ofOrder[i].quantity]]]

PastOrdersSettled(st, outcome) ==
    IF outcome = <<>> THEN st
    ELSE [st EXCEPT !.pastOrdersList = outcome[1].orders,
                    !.orderItemsCache = OrderCache(outcome[1].allItems)]

\* loadData, called by tryLoadData when a context wire delivers data and
\* both webstoreId and effectiveAccountId are known
LoadData(st) ==
    LET st1 == Issue(st, PlainRequest("getPastOrders"))
    IN  IF st1.masterCatalogData # <<>>
        THEN [Rebuild([st1 EXCEPT !.rawProductData = st1.masterCatalogData,
                                  !.inputQty = EmptyMap, !.searchTerm = <<>>])
              EXCEPT !.isLoading = FALSE]
        ELSE LoadCatalogProducts(st1, <<>>)

-----------------------------------------------------------------------------
(* Adding to the cart *)

\* itemsMap of handleAddToCart
ItemsMap(inQty) == [k \in {j \in DOMAIN inQty : inQty[j] > 0} |-> inQty[k]]

\* this.hasErrors at the time handleAddToCart reads it
HasErrorsNow(st) == HasErrors(st.products)

\* handleAddToCart without the test of isSaving
AddToCartWhileSaving(st) ==
    IF st.isPreview THEN st
    ELSE IF HasErrorsNow(st) THEN st
    ELSE IF ItemsMap(st.inputQty) = EmptyMap THEN st
    ELSE Issue([st EXCEPT !.isSaving = TRUE],
               Request("addItemsToCart", FALSE, "", <<>>, "", ItemsMap(st.inputQty)))

\* handleAddToCart, up to its await
AddToCart(st) ==
    IF st.isPreview \/ st.isSaving THEN st
    ELSE IF HasErrorsNow(st) THEN st
    ELSE IF ItemsMap(st.inputQty) = EmptyMap THEN st
    ELSE Issue([st EXCEPT !.isSaving = TRUE],
               Request("addItemsToCart", FALSE, "", <<>>, "", ItemsMap(st.inputQty)))

\* the loop storing the quantity sent in place of the sum
AddToCartMapOverwrite(cart, itemsMap) ==
    [k \in (DOMAIN cart) \cup (DOMAIN itemsMap) |->
        IF k \in DOMAIN itemsMap THEN itemsMap[k] ELSE cart[k]]

\* the loop this.cartDataMap[pId] = parseFloat(this.cartDataMap[pId] || 0) + qty
AddToCartMap(cart, itemsMap) ==
    [k \in (DOMAIN cart) \cup (DOMAIN itemsMap) |->
        Get(cart, k, 0) + Get(itemsMap, k, 0)]

\* handleAddToCart after addItemsToCart, dropping the staged quantities when
\* the call is rejected
AddToCartSettledDropping(st, req, ok) ==
    IF ok
    THEN Issue(Rebuild([st EXCEPT !.cartDataMap = AddToCartMap(st.cartDataMap, req.itemsMap),
                                  !.inputQty = EmptyMap]),
               PlainRequest("refreshCartSummary"))
    ELSE [FetchCartDataAndRebuild([st EXCEPT !.inputQty = EmptyMap], FALSE, "", <<>>)
          EXCEPT !.isSaving = FALSE]

\* handleAddToCart after addItemsToCart
AddToCartSettled(st, req, ok) ==
    IF ok
    THEN Issue(Rebuild([st EXCEPT !.cartDataMap = AddToCartMap(st.cartDataMap, req.itemsMap),
                                  !.inputQty = EmptyMap]),
               PlainRequest("refreshCartSummary"))
    ELSE [FetchCartDataAndRebuild(st, FALSE, "", <<>>) EXCEPT !.isSaving = FALSE]

\* handleAddToCart after refreshCartSummary without its finally
RefreshSettledNoFinally(st, ok) ==
    IF ok THEN st
    ELSE FetchCartDataAndRebuild(st, FALSE, "", <<>>)

\* handleAddToCart after refreshCartSummary
RefreshSettled(st, ok) ==
    IF ok THEN [st EXCEPT !.isSaving = FALSE]
    ELSE [FetchCartDataAndRebuild(st, FALSE, "", <<>>) EXCEPT !.isSaving = FALSE]

\* wiredCartSummary delivering data
CartSummaryWired(st) == FetchCartDataAndRebuild(st, TRUE, "", <<>>)

-----------------------------------------------------------------------------
(* The assistant: calculateValidQuantity *)

Reason(text, n) == [text |-> text, n |-> n]

\* The rules of calculateValidQuantity, each on the quantity and the reasons
\* the rules before it left: acc = [qty, reasons]

\* if (qty < min)
MinStep(acc, min) ==
    IF acc.qty < min
    THEN [qty |-> min, reasons |-> Append(acc.reasons, Reason("Minimum quantity is", min))]
    ELSE acc

\* if (inc > 1) and the remainder is not 0
IncStep(acc, inc) ==
    IF inc > 1 /\ acc.qty % inc # 0
    THEN [qty |-> CeilDiv(acc.qty, inc) * inc,
          reasons |-> Append(acc.reasons, Reason("Adjusted to multiple of", inc))]
    ELSE acc

\* if (qty > max)
MaxStep(acc, max) ==
    IF acc.qty > max
    THEN [qty |-> max,
          reasons |-> Append(acc.reasons, Reason("Maximum allowed per order is", max))]
    ELSE acc

\* if (qty > availableStock)
StockStep(acc, availableStock, isMaxRequest) ==
    IF acc.qty > availableStock
    THEN [qty |-> availableStock,
          reasons |-> Append(acc.reasons,
              IF isMaxRequest THEN Reason("Added all available stock", availableStock)
              ELSE Reason("Limited by available stock", availableStock))]
    ELSE acc

\* the object returned with isAdjusted taken from the quantities alone
ValidationByQuantity(acc, initialQty) ==
    [ finalQty |-> acc.qty,
      isAdjusted |-> acc.qty # initialQty,
      reasons |-> acc.reasons ]

\* the object calculateValidQuantity returns
Validation(acc, initialQty) ==
    [ finalQty |-> acc.qty,
      isAdjusted |-> (acc.qty # initialQty) \/ acc.reasons # <<>>,
      reasons |-> acc.reasons ]

\* availableStock without its floor at 0
AvailableStockNoFloor(product) ==
    PhysicalStock(product) - product.cartQty - product.qtyValue

\* const availableStock
AvailableStock(product) ==
    Max(0, PhysicalStock(product) - product.cartQty - product.qtyValue)

\* calculateValidQuantity with 9,000,000 itself taken for the sentinel
CalculateValidQuantitySentinelIncluded(product, requestedQty) ==
    Validation(
        StockStep(
            MaxStep(
                IncStep(
                    MinStep([qty |-> requestedQty, reasons |-> <<>>], MinOf(product)),
                    IncOf(product)),
                MaxOf(product)),
            AvailableStock(product),
            requestedQty >= MaxSentinel),
        requestedQty)

\* calculateValidQuantity with the maximum applied before the increment
CalculateValidQuantityMaxBeforeIncrement(product, requestedQty) ==
    Validation(
        StockStep(
            IncStep(
                MaxStep(
                    MinStep([qty |-> requestedQty, reasons |-> <<>>], MinOf(product)),
                    MaxOf(product)),
                IncOf(product)),
            AvailableStock(product),
            requestedQty > MaxSentinel),
        requestedQty)

\* calculateValidQuantity(product, requestedQty); product is a line of the
\* assistant's products
CalculateValidQuantity(product, requestedQty) ==
    Validation(
        StockStep(
            MaxStep(
                IncStep(
                    MinStep([qty |-> requestedQty, reasons |-> <<>>], MinOf(product)),
                    IncOf(product)),
                MaxOf(product)),
            AvailableStock(product),
            requestedQty > MaxSentinel),
        requestedQty)

-----------------------------------------------------------------------------
(* The assistant: the items of an agent response (handleSend) *)

\* finalQty of an item: the delta its action asks for; currentSelected is the
\* parseFloat of the line's qtyValue, 0 without a line
ItemDelta(item, real) ==
    CASE item.action = "set" -> item.quantity - (IF real # <<>> THEN real[1].qtyValue ELSE 0)
      [] item.action = "remove" -> 0 - item.quantity
      [] OTHER -> item.quantity

\* the test before calculateValidQuantity without its test of the action
ValidatesSearchIncluded(item, real) ==
    ItemDelta(item, real) > 0 /\ real # <<>>

\* the test before calculateValidQuantity, for a product that was found
Validates(item, real) ==
    ItemDelta(item, real) > 0 /\ item.action # "search" /\ real # <<>>

\* qtyToValidate
QtyToValidate(item, real) ==
    IF item.quantity > MaxSentinel THEN item.quantity ELSE ItemDelta(item, real)

\* the event dispatched whatever finalQty the validation returned
DispatchedUnchecked(item, real, validation) ==
    IF validation # <<>> THEN <<validation[1].finalQty>>
    ELSE (IF ItemDelta(item, real) < 0 /\ item.action # "search"
          THEN <<ItemDelta(item, real)>> ELSE <<>>)

\* the quantity of the 'addproduct' event dispatched for a found item whose
\* validation, if one ran, is `validation`; <<>> when none is dispatched
Dispatched(item, real, validation) ==
    IF validation # <<>>
    THEN (IF validation[1].finalQty > 0 THEN <<validation[1].finalQty>> ELSE <<>>)
    ELSE (IF ItemDelta(item, real) < 0 /\ item.action # "search"
          THEN <<ItemDelta(item, real)>> ELSE <<>>)

\* the outcome of an item that was not found
NotFound ==
    [ found |-> FALSE, requested |-> <<>>, validation |-> <<>>, dispatched |-> <<>>,
      couldNotAdd |-> FALSE ]

\* the outcome of an item that was found
Found(item, real, validation) ==
    [ found |-> TRUE,
      requested |-> IF validation # <<>> THEN <<QtyToValidate(item, real)>> ELSE <<>>,
      validation |-> validation,
      dispatched |-> Dispatched(item, real, validation),
      couldNotAdd |-> validation # <<>> /\ validation[1].finalQty <= 0 ]

\* the item with its realDataProduct `real` (at most one element)
OutcomeWith(item, real, inShown) ==
    IF ~(inShown \/ real # <<>>) THEN NotFound
    ELSE Found(item, real,
               IF Validates(item, real)
               THEN <<CalculateValidQuantity(real[1], QtyToValidate(item, real))>>
               ELSE <<>>)

\* What handleSend does with one item: the validation it runs and the event
\* it dispatches, if any.  snapshot is the assistant's products, shown its
\* lastShownItems.
ItemOutcome(item, snapshot, shown) ==
    OutcomeWith(item, FindBySku(snapshot, item.sku), item.sku \in shown)

\* the staged quantity of the product of rawProductData with this SKU
StagedBySku(st, sku) ==
    IF FindBySku(st.rawProductData, sku) = <<>> THEN 0
    ELSE Get(st.inputQty, FindBySku(st.rawProductData, sku)[1].id, 0)

StoredBySku(st, sku) ==
    /\ FindBySku(st.rawProductData, sku) # <<>>
    /\ FindBySku(st.rawProductData, sku)[1].id \in DOMAIN st.inputQty

\* what is recorded of an item: the fields before it, its outcome, the fields
\* after it
LogEntry(item, real, out, st, next) ==
    [ item |-> item,
      found |-> out.found,
      displayed |-> real # <<>>,
      errorBefore |-> real # <<>> /\ real[1].isError,
      stagedBefore |-> StagedBySku(st, item.sku),
      requested |-> out.requested,
      validation |-> out.validation,
      dispatched |-> out.dispatched,
      couldNotAdd |-> out.couldNotAdd,
      stagedAfter |-> StagedBySku(next, item.sku),
      storedAfter |-> StoredBySku(next, item.sku) ]

\* the grid after the event of an item, if one is dispatched
AfterItem(item, out, st) ==
    IF out.dispatched # <<>> THEN AiAddProduct(st, item.sku, out.dispatched[1]) ELSE st

\* The items of a response in order: each event is handled by the grid's
\* handleAiAddProduct before the next item is looked at, while the assistant
\* keeps reading the products it was given before the response.  Returns the
\* fields left and, per item, what was done.
RECURSIVE ProcessItems(_, _, _, _, _)
ProcessItems(items, snapshot, shown, st, log) ==
    IF items = <<>> THEN [st |-> st, log |-> log]
    ELSE ProcessItems(Tail(items), snapshot, shown,
             AfterItem(Head(items), ItemOutcome(Head(items), snapshot, shown), st),
             Append(log,
                 LogEntry(Head(items), FindBySku(snapshot, Head(items).sku),
                          ItemOutcome(Head(items), snapshot, shown), st,
                          AfterItem(Head(items), ItemOutcome(Head(items), snapshot, shown), st))))

\* the SKUs of the cards of a response: the items that were found
Cards(log) == {log[i].item.sku : i \in {j \in 1..Len(log) : log[j].found}}

\* the fields after a response whose items left `res`
Responded(res) ==
    /\ Becomes(res.st)
    /\ aiLog' = res.log
    /\ lastShownItems' = IF Cards(res.log) # {} THEN Cards(res.log) ELSE lastShownItems
    /\ cartCalls' = <<>>

\* handleSend, from the arrival of the agent's response: the items are
\* processed against the products the assistant holds (the grid's lines), and
\* the cards shown replace lastShownItems when there are any.
AiResponse(items) == Responded(ProcessItems(items, products, lastShownItems, Cur, <<>>))

\* the selected quantities of the product context handleSend sends: per
\* line of this.products, parseFloat(p.qtyValue) when it is not empty
SelectedOf(lines) ==
    [k \in {lines[i].id : i \in {j \in 1..Len(lines) : lines[j].qtyValue > 0}} |->
        (CHOOSE l \in SeqToSet(lines) : l.id = k).qtyValue]

\* handleSend, up to its await of askEinstein
AskEinstein(st) ==
    Issue(st, Request("askEinstein", FALSE, "", <<>>, "", SelectedOf(st.products)))

\* handleSend from the arrival of the answer to req
AskEinsteinSettled(req, items) ==
    Responded(ProcessItems(items, products, lastShownItems, Settle(Cur, req), <<>>))

-----------------------------------------------------------------------------
(* The assistant: the items of a file (handleConfirmFile) *)

\* an element of message.fileItems: the card of a product the file analysis
\* matched, with the quantity the file asks for
FileItem(sku, quantityRequested) == [sku |-> sku, quantityRequested |-> quantityRequested]

\* the outcome of a file item whose product was found: its validation, the
\* event dispatched when finalQty > 0, 'Could not add' otherwise
FoundInFile(item, validation) ==
    [ found |-> TRUE,
      requested |-> <<item.quantityRequested>>,
      validation |-> <<validation>>,
      dispatched |-> IF validation.finalQty > 0 THEN <<validation.finalQty>> ELSE <<>>,
      couldNotAdd |-> ~(validation.finalQty > 0) ]

\* the file item with its realDataProduct `real` (at most one element)
FileOutcomeWith(item, real) ==
    IF real = <<>> THEN NotFound
    ELSE FoundInFile(item, CalculateValidQuantity(real[1], item.quantityRequested))

\* what handleConfirmFile does with one item
FileOutcome(item, snapshot) == FileOutcomeWith(item, FindBySku(snapshot, item.sku))

\* a file item as it is recorded: its action is "file"
FileItemRecorded(item) ==
    [sku |-> item.sku, action |-> "file", quantity |-> item.quantityRequested]

\* the items of a file in order, as ProcessItems does those of a response
RECURSIVE ProcessFileItems(_, _, _, _)
ProcessFileItems(items, snapshot, st, log) ==
    IF items = <<>> THEN [st |-> st, log |-> log]
    ELSE ProcessFileItems(Tail(items), snapshot,
             AfterItem(Head(items), FileOutcome(Head(items), snapshot), st),
             Append(log,
                 LogEntry(FileItemRecorded(Head(items)), FindBySku(snapshot, Head(items).sku),
                          FileOutcome(Head(items), snapshot), st,
                          AfterItem(Head(items), FileOutcome(Head(items), snapshot), st))))

\* the fields after the items of a file left `res`
Confirmed(res) ==
    /\ Becomes(res.st)
    /\ aiLog' = res.log
    /\ lastShownItems' = lastShownItems
    /\ cartCalls' = <<>>

\* handleConfirmFile on a message whose fileItems are `fileItems`
HandleConfirmFile(fileItems) == Confirmed(ProcessFileItems(fileItems, products, Cur, <<>>))

-----------------------------------------------------------------------------
(* Catalog data *)

\* a product without tiers and without list price, at 10.00 (prices are in
\* quarters of a cent)
Product(id, name, sku, minQty, maxQty, increment, stock) ==
    [ id |-> id, name |-> name, sku |-> sku, minQty |-> minQty, maxQty |-> maxQty,
      increment |-> increment, stock |-> stock,
      unitPrice |-> 4000, listPrice |-> 0, priceRanges |-> <<>> ]

\* text of a quantity field: <<>> is text that is no number
TypedValues == {<<>>} \cup {<<n>> : n \in (0 - 1)..MaxTyped}

\* the state of a component that has loaded `catalog`, `cart` and `promo`
LoadedWith(catalog, cart, promo) ==
    /\ masterCatalogData = catalog
    /\ rawProductData = catalog
    /\ cartDataMap = cart
    /\ promoDataMap = promo
    /\ inputQty = EmptyMap
    /\ searchTerm = <<>>
    /\ products = BuildGrid(catalog, EmptyMap, cart, promo, <<>>)
    /\ orderItemsCache = EmptyMap
    /\ pastOrdersList = {}
    /\ isLoading = FALSE
    /\ isSaving = FALSE
    /\ isPreview = FALSE
    /\ currentSourceValue = SOURCE_CATALOG
    /\ pending = EmptyBag
    /\ lastShownItems = {}
    /\ aiLog = <<>>
    /\ cartCalls = <<>>

\* the state of a component that has loaded `catalog` and `cart`, before any
\* promotion
Loaded(catalog, cart) == LoadedWith(catalog, cart, EmptyMap)

-----------------------------------------------------------------------------
(* Specification of the rules of a line: one product whose rules, stock and   *)
(* cart quantity are drawn from a few values, edited through the grid.   *)

\* the minimum, the maximum, the increment, the stock and the cart quantity
\* the product is drawn with; 0 is an absent rule, <<>> an absent stock
InitGrid ==
    \E mn \in {0, 2, 3}, mx \in {0, 4, 6}, ic \in {0, 2, 3},
       st \in {<<>>, <<0>>, <<3>>, <<5>>}, c \in {0, 1, 3, 5} :
        Loaded(<<Product("p1", <<"A", "1">>, <<"S", "1">>, mn, mx, ic, st)>>,
               IF c = 0 THEN EmptyMap ELSE Put(EmptyMap, "p1", c))

NextGrid ==
    \/ \E id \in LineIds, typed \in TypedValues : HandleQtyChange(id, typed)
    \/ \E id \in LineIds : StagedWithin(MaxStaged) /\ HandleIncrement(id)
    \/ \E id \in LineIds : HandleDecrement(id)

SpecGrid == InitGrid /\ [][NextGrid]_vars

-----------------------------------------------------------------------------
(* Specification of the assistant's items: the same product, edited through  *)
(* the grid, searched for, and named by the items of agent responses.        *)

\* a response is taken while no staged quantity is above this
MaxStagedAi == 4

\* the products of two worked examples: minimum 1, maximum 10, increment 1,
\* stock 5; minimum 5, maximum 100, increment 5, stock 200
ExampleProducts ==
    { Product("p1", <<"A", "1">>, <<"S", "1">>, 1, 10, 1, <<5>>),
      Product("p1", <<"A", "1">>, <<"S", "1">>, 5, 100, 5, <<200>>) }

\* the product is drawn with a minimum, a maximum, an increment, a stock
\* and a cart quantity, or is one of the examples
InitAi ==
    \/ \E mn \in {0, 3}, mx \in {0, 4}, ic \in {0, 2},
          st \in {<<>>, <<3>>, <<5>>}, c \in {0, 1} :
           Loaded(<<Product("p1", <<"A", "1">>, <<"S", "1">>, mn, mx, ic, st)>>,
                  IF c = 0 THEN EmptyMap ELSE Put(EmptyMap, "p1", c))
    \/ \E p \in ExampleProducts : Loaded(<<p>>, EmptyMap)

Item(sku, action, quantity) == [sku |-> sku, action |-> action, quantity |-> quantity]

\* the quantities of an agent's items; the last two are the sentinel of
\* "all the stock" and the greatest quantity that is not one
AgentQtys == {0 - 1, 0, 1, 2, 3, 7, MaxSentinel, MaxSentinel + 1}

\* S9 is the SKU of no product
AgentItems ==
    {Item(<<"S", "1">>, action, q) : action \in {"add", "set", "remove", "search"}, q \in AgentQtys}
        \cup {Item(<<"S", "9">>, "add", 2), Item(<<"S", "9">>, "remove", 1)}

\* the responses: one item, or two items on the same product
AgentResponses ==
    {<<it>> : it \in AgentItems}
        \cup {<<a, b>> : a, b \in {Item(<<"S", "1">>, "add", 2), Item(<<"S", "1">>, "remove", 1)}}

\* the fileItems of the messages confirmed: one item, or two of the same
\* product
FileMessages ==
    {<<FileItem(<<"S", "1">>, q)>> : q \in {0 - 1, 0, 2, 3, 7, MaxSentinel + 1}}
        \cup {<<FileItem(<<"S", "9">>, 2)>>,
              <<FileItem(<<"S", "1">>, 2), FileItem(<<"S", "1">>, 3)>>}

NextAi ==
    \/ \E id \in LineIds, typed \in {<<0>>, <<2>>, <<3>>, <<4>>} : HandleQtyChange(id, typed)
    \/ \E term \in {<<>>, <<"z">>} : HandleSearchChange(term)
    \/ \E items \in AgentResponses : StagedWithin(MaxStagedAi) /\ AiResponse(items)
    \/ \E fileItems \in FileMessages : StagedWithin(MaxStagedAi) /\ HandleConfirmFile(fileItems)

SpecAi == InitAi /\ [][NextAi]_vars

-----------------------------------------------------------------------------
(* Specification of the prices of a line: one product without rules and with *)
(* unlimited stock, whose prices, tiers, promotion and cart quantity are     *)
(* drawn from the choices below (a list price of 0 is an absent one, the    *)
(* list price 40001 is 100.0025), edited through the grid.                   *)

\* an element of priceRanges; max 0 is an absent max
Tier(min, max, price) == [min |-> min, max |-> max, price |-> price]

\* no tier; 1-9 at 100.00 and 10+ at 90.00; 2-4 at 95.00 and 5+ at 90.00
TierChoices ==
    { <<>>,
      <<Tier(1, 9, 40000), Tier(10, 0, 36000)>>,
      <<Tier(2, 4, 38000), Tier(5, 0, 36000)>> }

\* no promotion, and promotions of each price; <<>> is a promotion without
\* price
PromoChoices ==
    {EmptyMap} \cup
    {Put(EmptyMap, "p1", [price |-> pp, name |-> "Promotion"]) :
        pp \in {<<>>, <<13332>>, <<32000>>, <<40000>>, <<48000>>}}

\* an increment is taken while no staged quantity is above this
MaxStagedPrice == 11

Priced(prod, unitPrice, listPrice, priceRanges) ==
    [prod EXCEPT !.unitPrice = unitPrice, !.listPrice = listPrice,
                 !.priceRanges = priceRanges]

InitPrice ==
    \E up \in {0, 40000}, lp \in {0, 40001, 48000}, tiers \in TierChoices,
       promo \in PromoChoices, c \in {0, 4, 9} :
        LoadedWith(<<Priced(Product("p1", <<"A", "1">>, <<"S", "1">>, 0, 0, 0, <<>>),
                            up, lp, tiers)>>,
                   IF c = 0 THEN EmptyMap ELSE Put(EmptyMap, "p1", c),
                   promo)

NextPrice ==
    \/ \E id \in LineIds, typed \in {<<0>>, <<1>>, <<2>>, <<5>>, <<12>>} : HandleQtyChange(id, typed)
    \/ \E id \in LineIds : StagedWithin(MaxStagedPrice) /\ HandleIncrement(id)
    \/ \E id \in LineIds : HandleDecrement(id)

SpecPrice == InitPrice /\ [][NextPrice]_vars

-----------------------------------------------------------------------------
(* Specification of the component: from its construction, with a catalog of  *)
(* two products and two past orders.                                         *)

\* pA: minimum 2, maximum 4, increment 2, stock 3; pB: no rule, no stock count
PA == Product("pA", <<"A", "x">>, <<"S", "1">>, 2, 4, 2, <<3>>)
PB == Product("pB", <<"B", "x">>, <<"S", "2">>, 0, 0, 0, <<>>)

OrderItem(orderId, productId, quantity) ==
    [orderId |-> orderId, productId |-> productId, quantity |-> quantity]

\* what getAllActiveProducts can answer: a rejection or an error, no product,
\* the catalog (not in name order)
CatalogOutcomes == {<<>>, <<<<>>>>, <<<<PB, PA>>>>}

\* what getPastOrders can answer: two orders, the items of o1 (one of them of
\* quantity 0); o2 comes without items, so that selecting it asks
\* getOrderProducts
PastOrdersOutcomes ==
    {<<>>,
     <<[orders |-> {"o1", "o2"},
        allItems |-> <<OrderItem("o1", "pA", 3), OrderItem("o1", "pB", 0)>>]>>}

\* what getOrderProducts can answer for o2; pC is no product of the catalog
OrderOutcomes ==
    {<<>>, <<<<>>>>,
     <<<<[productId |-> "pB", quantity |-> 2], [productId |-> "pC", quantity |-> 1]>>>>}

CartOutcomes == {<<>>, <<EmptyMap>>, <<Put(EmptyMap, "pA", 2)>>}

PromoOutcomes == {<<>>, <<Put(EmptyMap, "pA", [price |-> <<>>, name |-> "Promotion"])>>}

SearchTerms == {<<>>, <<"b">>}

TypedMain == {<<0>>, <<1>>, <<2>>}

\* the details of the 'addproduct' events; S9 is the SKU of no product
AiEvents == {<<"S", "1">>, <<"S", "2">>, <<"S", "9">>} \X {0 - 1, 1}

\* an 'addproduct' event is taken while no staged quantity is above this
MaxStagedMain == 1

\* an event that makes a request is taken while fewer requests than this
\* are in flight
MaxPending == 1

\* a commit is taken while no cart quantity is above this
MaxCart == 2

Init ==
    /\ masterCatalogData = <<>>
    /\ rawProductData = <<>>
    /\ orderItemsCache = EmptyMap
    /\ pastOrdersList = {}
    /\ inputQty = EmptyMap
    /\ cartDataMap = EmptyMap
    /\ promoDataMap = EmptyMap
    /\ searchTerm = <<>>
    /\ products = <<>>
    /\ isLoading = TRUE
    /\ isSaving = FALSE
    /\ isPreview = FALSE
    /\ currentSourceValue = SOURCE_CATALOG
    /\ pending = EmptyBag
    /\ lastShownItems = {}
    /\ aiLog = <<>>
    /\ cartCalls = <<>>

\* a context wire delivers data and tryLoadData calls loadData
ContextWired(preview) ==
    /\ Becomes(LoadData([Cur EXCEPT !.isPreview = preview]))
    /\ GridStep

PastOrdersResponse ==
    \E req \in InFlight("getPastOrders"), outcome \in PastOrdersOutcomes :
        /\ Becomes(PastOrdersSettled(Settle(Cur, req), outcome))
        /\ GridStep

CatalogResponse ==
    \E req \in InFlight("getAllActiveProducts"), outcome \in CatalogOutcomes :
        /\ Becomes(CatalogSettled(Settle(Cur, req), req, outcome))
        /\ GridStep

CartResponse ==
    \E req \in InFlight("getCartQuantities"), outcome \in CartOutcomes :
        /\ Becomes(CartSettled(Settle(Cur, req), req, outcome))
        /\ GridStep

PromoResponse(outcome) ==
    \E req \in InFlight("getPromotionPricingCollection") :
        /\ Becomes(PromotionsSettled(Settle(Cur, req), outcome))
        /\ GridStep

OrderResponse ==
    \E req \in InFlight("getOrderProducts"), outcome \in OrderOutcomes :
        /\ Becomes(OrderSettled(Settle(Cur, req), outcome))
        /\ GridStep

AddToCartResponse ==
    \E req \in InFlight("addItemsToCart"), ok \in BOOLEAN :
        /\ Becomes(AddToCartSettled(Settle(Cur, req), req, ok))
        /\ GridStep

RefreshResponse ==
    \E req \in InFlight("refreshCartSummary"), ok \in BOOLEAN :
        /\ Becomes(RefreshSettled(Settle(Cur, req), ok))
        /\ GridStep

\* the source combobox changes to another of its options
HandleSourceChange(newValue) ==
    /\ newValue \in {SOURCE_CATALOG} \cup pastOrdersList
    /\ newValue # currentSourceValue
    /\ Becomes(SourceChange(Cur, newValue))
    /\ GridStep

\* the Add to Cart button
HandleAddToCart ==
    /\ \A k \in DOMAIN cartDataMap : cartDataMap[k] <= MaxCart
    /\ Becomes(AddToCart(Cur))
    /\ lastShownItems' = lastShownItems
    /\ aiLog' = <<>>
    /\ cartCalls' = IF InFlight("addItemsToCart")' # InFlight("addItemsToCart")
                    THEN <<ItemsMap(inputQty)>> ELSE <<>>

WiredCartSummary ==
    /\ Becomes(CartSummaryWired(Cur))
    /\ GridStep

Next ==
    \/ \E preview \in BOOLEAN : NumPending < MaxPending /\ ContextWired(preview)
    \/ PastOrdersResponse
    \/ CatalogResponse
    \/ CartResponse
    \/ \E outcome \in PromoOutcomes : PromoResponse(outcome)
    \/ OrderResponse
    \/ AddToCartResponse
    \/ RefreshResponse
    \/ \E v \in {SOURCE_CATALOG, "o1", "o2"} : NumPending < MaxPending /\ HandleSourceChange(v)
    \/ NumPending < MaxPending /\ HandleAddToCart
    \/ NumPending < MaxPending /\ WiredCartSummary
    \/ \E id \in LineIds, typed \in TypedMain : HandleQtyChange(id, typed)
    \/ \E term \in SearchTerms : HandleSearchChange(term)
    \/ \E ev \in AiEvents : StagedWithin(MaxStagedMain) /\ HandleAiAddProduct(ev[1], ev[2])

Spec == Init /\ [][Next]_vars


-----------------------------------------------------------------------------
(* Specification of the loaded component under concurrent refreshes: the     *)
(* catalog of pA and pB is loaded, the cart summary wire fires while earlier *)
(* calls of getCartQuantities are still in flight, the user edits and        *)
(* searches, and the assistant asks the agent and applies its answers.       *)

\* the cart summary wire fires while fewer calls of getCartQuantities than
\* this are in flight
MaxRefreshes == 2

\* The search terms b and X match a name in another case, 2 matches the SKU
\* of pB alone; the answers of the agent have one item each, S9 being the
\* SKU of no product.

InitRefresh ==
    \E cart \in {EmptyMap, Put(EmptyMap, "pA", 2)} : Loaded(<<PA, PB>>, cart)

\* the Send button of the assistant
HandleSend ==
    /\ Becomes(AskEinstein(Cur))
    /\ GridStep

\* the answer of the agent arrives with its items
AskEinsteinResponse(items) ==
    \E req \in InFlight("askEinstein") : AskEinsteinSettled(req, items)

NextRefresh ==
    \/ Cardinality(CartRequests(pending)) < MaxRefreshes /\ WiredCartSummary
    \/ CartResponse
    \/ \E id \in LineIds, typed \in TypedMain : HandleQtyChange(id, typed)
    \/ \E term \in {<<>>, <<"b">>, <<"2">>, <<"X">>} : HandleSearchChange(term)
    \/ InFlight("askEinstein") = {} /\ HandleSend
    \/ \E item \in { Item(<<"S", "1">>, "add", 2), Item(<<"S", "2">>, "add", 1),
                      Item(<<"S", "2">>, "remove", 1), Item(<<"S", "9">>, "add", 1) } :
           StagedWithin(MaxStagedMain) /\ AskEinsteinResponse(<<item>>)
    \/ \E ev \in AiEvents : StagedWithin(MaxStagedMain) /\ HandleAiAddProduct(ev[1], ev[2])

SpecRefresh == InitRefresh /\ [][NextRefresh]_vars

-----------------------------------------------------------------------------
(* Specification of the promotions: the component has loaded the catalog of  *)
(* pA and pB, an empty cart and the past orders, and the fetchPromotions     *)
(* of the catalog load is still in flight; the user changes the source and   *)
(* edits while promotions and cart quantities are answered.                  *)

\* a change of source is taken while fewer requests than this are in flight
MaxPendingPromo == 2

\* the answers of getPromotionPricingCollection: a rejection, a result
\* without any promotion, a promotion of pA, a promotion of pB at 8.00
PromoOutcomesPromo ==
    { <<>>, <<EmptyMap>>,
      <<Put(EmptyMap, "pA", [price |-> <<>>, name |-> "Promotion"])>>,
      <<Put(EmptyMap, "pB", [price |-> <<3200>>, name |-> "Promotion"])>> }

\* the state of a component that has loaded the catalog of pA and pB, an
\* empty cart, the past orders and `promo`, with `requests` in flight
LoadedOrders(preview, promo, requests) ==
    /\ masterCatalogData = <<PA, PB>>
    /\ rawProductData = <<PA, PB>>
    /\ orderItemsCache =
           OrderCache(<<OrderItem("o1", "pA", 3), OrderItem("o1", "pB", 0)>>)
    /\ pastOrdersList = {"o1", "o2"}
    /\ inputQty = EmptyMap
    /\ cartDataMap = EmptyMap
    /\ promoDataMap = promo
    /\ searchTerm = <<>>
    /\ products = BuildGrid(<<PA, PB>>, EmptyMap, EmptyMap, promo, <<>>)
    /\ isLoading = FALSE
    /\ isSaving = FALSE
    /\ isPreview = preview
    /\ currentSourceValue = SOURCE_CATALOG
    /\ pending = requests
    /\ lastShownItems = {}
    /\ aiLog = <<>>
    /\ cartCalls = <<>>

InitPromo ==
    LoadedOrders(FALSE, EmptyMap, SetToBag({PlainRequest("getPromotionPricingCollection")}))

NextPromo ==
    \/ \E outcome \in PromoOutcomesPromo : PromoResponse(outcome)
    \/ CartResponse
    \/ \E v \in {SOURCE_CATALOG, "o1"} : NumPending < MaxPendingPromo /\ HandleSourceChange(v)
    \/ \E id \in LineIds, typed \in TypedMain : HandleQtyChange(id, typed)

SpecPromo == InitPromo /\ [][NextPromo]_vars

-------------------------------------------------------------------------------------------------------------------------------------------------
(* Specification of overlapping operations: the component has loaded the     *)
(* catalog of pA and pB, the past orders and a promotion of pA, in preview   *)
(* mode or not; the user changes the source, edits and commits while         *)
(* earlier requests are still in flight, and every request is answered.      *)

\* an event that makes a request is taken while fewer requests than this
\* are in flight
MaxOverlap == 2

InitOverlap ==
    \E preview \in BOOLEAN :
        LoadedOrders(preview, Put(EmptyMap, "pA", [price |-> <<>>, name |-> "Promotion"]),
                     EmptyBag)

NextOverlap ==
    \/ CartResponse
    \/ OrderResponse
    \/ AddToCartResponse
    \/ RefreshResponse
    \/ \E v \in {SOURCE_CATALOG, "o1", "o2"} : NumPending < MaxOverlap /\ HandleSourceChange(v)
    \/ (isSaving \/ NumPending < MaxOverlap) /\ HandleAddToCart
    \/ \E id \in LineIds, typed \in {<<0>>, <<2>>} : HandleQtyChange(id, typed)
    \/ StagedWithin(MaxStagedMain) /\ HandleAiAddProduct(<<"S", "2">>, 1)

SpecOverlap == InitOverlap /\ [][NextOverlap]_vars

-----------------------------------------------------------------------------
(* Specification of the busy flags: the component from its construction,     *)
(* where the context wire fires, the user changes the source, stages 2 of a  *)
(* product and commits while at most one earlier request is in flight, and   *)
(* every request in flight is eventually answered, by a result or by a       *)
(* rejection.                                                                *)

\* getCartQuantities answers the oldest of its calls in flight (the fields
\* the handler leaves are computed once, then stored)
OldestCartResponse ==
    \E req \in InFlight("getCartQuantities"), outcome \in CartOutcomes :
        /\ req.seq = 1
        /\ \E settled \in {Settle(Cur, req)} :
               \E st \in {CartSettled(settled, req, outcome)} : Becomes(st)
        /\ GridStep

NextBusy ==
    \/ NumPending < MaxPending /\ ContextWired(FALSE)
    \/ PastOrdersResponse
    \/ CatalogResponse
    \/ CartResponse
    \/ \E outcome \in PromoOutcomes : PromoResponse(outcome)
    \/ OrderResponse
    \/ AddToCartResponse
    \/ RefreshResponse
    \/ \E v \in {SOURCE_CATALOG, "o1", "o2"} : NumPending < MaxPending /\ HandleSourceChange(v)
    \/ NumPending < MaxPending /\ HandleAddToCart
    \/ \E id \in LineIds : HandleQtyChange(id, <<2>>)

\* each call in flight is answered
Answering ==
    /\ WF_vars(PastOrdersResponse)
    /\ WF_vars(CatalogResponse)
    /\ WF_vars(OldestCartResponse)
    /\ WF_vars(\E outcome \in PromoOutcomes : PromoResponse(outcome))
    /\ WF_vars(OrderResponse)
    /\ WF_vars(AddToCartResponse)
    /\ WF_vars(RefreshResponse)

SpecBusy == Init /\ [][NextBusy]_vars /\ Answering
-----------------------------------------------------------------------------
(* Claims about the rules of a line *)

\* the product of rawProductData a line was built from
RawOf(line) == CHOOSE p \in SeqToSet(rawProductData) : p.id = line.id

StagedOf(id) == IF id \in DOMAIN inputQty THEN inputQty[id] ELSE 0
InCartOf(id) == IF id \in DOMAIN cartDataMap THEN cartDataMap[id] ELSE 0
MaxRule(p) == IF p.maxQty = 0 THEN 999999 ELSE p.maxQty
MinRule(p) == IF p.minQty = 0 THEN 1 ELSE p.minQty
IncRule(p) == IF p.increment = 0 THEN 1 ELSE p.increment
StockRule(p) == IF p.stock = <<>> THEN 999999 ELSE p.stock[1]

\* C1: in every line built by buildGrid, finalLimit is
\* min(max(0, max - inCart), max(0, physicalStock - inCart)), with max and the
\* stock defaulting to 999999, and so finalLimit >= 0.
C1_FinalLimit ==
    \A i \in 1..Len(products) :
        LET line == products[i]
            p == RawOf(line)
            c == InCartOf(line.id)
            byMax == IF MaxRule(p) - c > 0 THEN MaxRule(p) - c ELSE 0
            byStock == IF StockRule(p) - c > 0 THEN StockRule(p) - c ELSE 0
        IN  /\ line.finalLimit = (IF byMax <= byStock THEN byMax ELSE byStock)
            /\ line.finalLimit >= 0

\* C1 witness: a line whose cart quantity exceeds the maximum while stock is
\* left, so that the floor at 0 decides finalLimit.
C1_Witness ==
    \E i \in 1..Len(products) :
        /\ InCartOf(products[i].id) > MaxRule(RawOf(products[i]))
        /\ StockRule(RawOf(products[i])) > InCartOf(products[i].id)
        /\ products[i].finalLimit = 0

\* the four rule violations of a staged quantity q, as the claim lists them
Violates(p, c, q) ==
    \/ q > (IF StockRule(p) - c > 0 THEN StockRule(p) - c ELSE 0)
    \/ q > 0 /\ q < MinRule(p)
    \/ q > 0 /\ q > MaxRule(p)
    \/ q > 0 /\ q % IncRule(p) # 0

\* C3: buildGrid marks a line invalid if and only if the staged quantity q
\* exceeds max(0, physicalStock - inCart), or q > 0 and q is below the
\* minimum, above the maximum or not a multiple of the increment.
C3_IsErrorIff ==
    \A i \in 1..Len(products) :
        products[i].isError <=>
            Violates(RawOf(products[i]), InCartOf(products[i].id), StagedOf(products[i].id))

\* C3 witness: a line that is invalid for the maximum alone.
C3_Witness ==
    \E i \in 1..Len(products) :
        LET p == RawOf(products[i])
            c == InCartOf(products[i].id)
            q == StagedOf(products[i].id)
        IN  /\ products[i].isError
            /\ q > MaxRule(p)
            /\ q >= MinRule(p)
            /\ q % IncRule(p) = 0
            /\ q <= StockRule(p) - c

\* C4: a staged quantity of exactly 0 is never flagged invalid, whatever the
\* minimum, maximum, increment, stock and cart quantity.
C4_ZeroIsValid ==
    \A i \in 1..Len(products) :
        StagedOf(products[i].id) = 0 => ~products[i].isError

\* C4 witness: an empty line of a product with a minimum and an increment
\* above 1 whose stock is exhausted by the cart.
C4_Witness ==
    \E i \in 1..Len(products) :
        LET p == RawOf(products[i]) IN
        /\ StagedOf(products[i].id) = 0
        /\ p.stock # <<>>
        /\ InCartOf(products[i].id) >= p.stock[1]
        /\ MinRule(p) > 1
        /\ IncRule(p) > 1
        /\ ~products[i].isError

-----------------------------------------------------------------------------
(* Claims about the input quantity map and the commit *)

\* C2: after any sequence of the operations that write the input quantity
\* map, no entry of the map holds a quantity that is zero or negative.
C2_NoZeroStored == \A id \in DOMAIN inputQty : inputQty[id] > 0

\* the product of the catalog with this id
CatalogProduct(id) == CHOOSE p \in SeqToSet(masterCatalogData) : p.id = id

\* C5: handleAddToCart never calls addItemsToCart with a product of the
\* catalog whose staged quantity violates a rule of that product, whether or
\* not the product's line is displayed.
C5_CommitBlocked ==
    \A i \in 1..Len(cartCalls) :
        \A id \in DOMAIN cartCalls[i] :
            (\E p \in SeqToSet(masterCatalogData) : p.id = id)
                => ~Violates(CatalogProduct(id), InCartOf(id), cartCalls[i][id])

-----------------------------------------------------------------------------
(* Claims about the items of an agent response.  aiLog[1] is the first item  *)
(* of the last response: the lines the assistant read for it were current.   *)

\* the product an item names, when it is one of rawProductData
ItemProduct(e) == FindBySku(rawProductData, e.item.sku)[1]

\* a quantity corrected as the rules are stated: raised to the minimum when
\* positive and below it, rounded up to a multiple of the increment, clamped
\* to the maximum, clamped to the stock the cart leaves
CorrectedAbsolute(p, c, q) ==
    LET raised == IF q > 0 /\ q < MinRule(p) THEN MinRule(p) ELSE q
        rounded == IF raised % IncRule(p) # 0
                   THEN ((raised \div IncRule(p)) + 1) * IncRule(p) ELSE raised
        capped == IF rounded > MaxRule(p) THEN MaxRule(p) ELSE rounded
        left == IF StockRule(p) - c > 0 THEN StockRule(p) - c ELSE 0
    IN  IF capped > left THEN left ELSE capped

\* C6: starting from a valid line, when the assistant dispatches a delta that
\* calculateValidQuantity produced and handleAiAddProduct applies it, the
\* staged quantity of the line is 0 or satisfies every rule.
C6_ValidatedDelta ==
    aiLog # <<>> =>
        LET e == aiLog[1] IN
        (e.displayed /\ ~e.errorBefore /\ e.validation # <<>> /\ e.dispatched # <<>>)
            => \/ e.stagedAfter = 0
               \/ ~Violates(ItemProduct(e), InCartOf(ItemProduct(e).id), e.stagedAfter)

\* C7: for an item 'add' of quantity n > 0 on a line of staged quantity s,
\* the staged quantity after the item is s + n corrected by the rules.
C7_AddAbsolute ==
    aiLog # <<>> =>
        LET e == aiLog[1] IN
        (e.displayed /\ e.item.action = "add" /\ e.item.quantity > 0
                     /\ e.item.quantity <= MaxSentinel)
            => e.stagedAfter =
                   CorrectedAbsolute(ItemProduct(e), InCartOf(ItemProduct(e).id),
                                     e.stagedBefore + e.item.quantity)

\* C8: for an item 'set' of quantity n >= 0 on a line of staged quantity s,
\* the staged quantity after the item is n corrected by the rules, and the
\* delta dispatched is that quantity minus s.
C8_SetAbsolute ==
    aiLog # <<>> =>
        LET e == aiLog[1]
            delta == IF e.dispatched = <<>> THEN 0 ELSE e.dispatched[1]
        IN  (e.displayed /\ e.item.action = "set" /\ e.item.quantity >= 0
                         /\ e.item.quantity <= MaxSentinel)
                => LET final == CorrectedAbsolute(ItemProduct(e), InCartOf(ItemProduct(e).id),
                                                  e.item.quantity)
                   IN  /\ e.stagedAfter = final
                       /\ delta = final - e.stagedBefore

\* C9: for an item 'remove' of quantity n >= 0 on a product the assistant
\* finds, of staged quantity s, the staged quantity after the item is
\* max(0, s - n): never negative, and at 0 the entry is removed from the map.
C9_Remove ==
    \A i \in 1..Len(aiLog) :
        LET e == aiLog[i] IN
        (e.found /\ e.item.action = "remove" /\ e.item.quantity >= 0)
            => /\ e.stagedAfter = (IF e.stagedBefore - e.item.quantity > 0
                                   THEN e.stagedBefore - e.item.quantity ELSE 0)
               /\ e.stagedAfter >= 0
               /\ (e.stagedAfter = 0 => ~e.storedAfter)

\* C9 witness: an item removes more than is staged on a line, and the entry
\* is gone.
C9_Witness ==
    \E i \in 1..Len(aiLog) :
        /\ aiLog[i].displayed
        /\ aiLog[i].item.action = "remove"
        /\ aiLog[i].stagedBefore > 0
        /\ aiLog[i].item.quantity > aiLog[i].stagedBefore
        /\ aiLog[i].stagedAfter = 0
        /\ ~aiLog[i].storedAfter

\* the stock left for a line: physical stock less cart less staged, not below 0
StockLeft(e) ==
    LET left == StockRule(ItemProduct(e)) - InCartOf(ItemProduct(e).id) - e.stagedBefore
    IN  IF left > 0 THEN left ELSE 0

AllStockReasons(e) ==
    {j \in 1..Len(e.validation[1].reasons) :
        e.validation[1].reasons[j].text = "Added all available stock"}

\* C10 as stated: an item 'add' of a quantity above 9,000,000, and only
\* such an item, on a product of finite stock resolves to the stock left k
\* with the reason 'Added all available stock (k)'.
C10_TakeMaximum ==
    aiLog # <<>> =>
        LET e == aiLog[1] IN
        (e.displayed /\ e.item.action = "add" /\ ItemProduct(e).stock # <<>>)
            => IF e.item.quantity > MaxSentinel
               THEN /\ e.validation # <<>>
                    /\ e.validation[1].finalQty = StockLeft(e)
                    /\ \E j \in AllStockReasons(e) :
                           e.validation[1].reasons[j].n = StockLeft(e)
               ELSE e.validation # <<>> => AllStockReasons(e) = {}

\* C10 amended: an item 'add' or 'set' of a quantity above 9,000,000 on a
\* product of finite stock resolves to the lesser of the product's maximum
\* and the stock left k; the reason 'Added all available stock (k)' is given
\* exactly when k is below the maximum; the delta dispatched is the resolved
\* quantity when it is positive; an item of a quantity up to 9,000,000 never
\* gets that reason.
C10_TakeMaximumWithinMax ==
    aiLog # <<>> =>
        LET e == aiLog[1] IN
        (e.displayed /\ e.item.action \in {"add", "set"} /\ ItemProduct(e).stock # <<>>)
            => IF e.item.quantity > MaxSentinel
               THEN LET k == StockLeft(e)
                        max == MaxRule(ItemProduct(e))
                    IN  /\ e.validation # <<>>
                        /\ e.validation[1].finalQty = (IF max <= k THEN max ELSE k)
                        /\ (AllStockReasons(e) # {}) <=> (k < max)
                        /\ \A j \in AllStockReasons(e) : e.validation[1].reasons[j].n = k
                        /\ e.dispatched = (IF e.validation[1].finalQty > 0
                                           THEN <<e.validation[1].finalQty>> ELSE <<>>)
               ELSE e.validation # <<>> => AllStockReasons(e) = {}

\* C10 witness: stock 3, cart 1, nothing staged: delta 2 with the reason
\* 'Added all available stock (2)'.
C10_Witness ==
    /\ aiLog # <<>>
    /\ aiLog[1].displayed
    /\ aiLog[1].item.action = "add"
    /\ aiLog[1].item.quantity > MaxSentinel
    /\ ItemProduct(aiLog[1]).stock = <<3>>
    /\ InCartOf(ItemProduct(aiLog[1]).id) = 1
    /\ aiLog[1].stagedBefore = 0
    /\ aiLog[1].dispatched = <<2>>
    /\ \E j \in AllStockReasons(aiLog[1]) : aiLog[1].validation[1].reasons[j].n = 2

-----------------------------------------------------------------------------
(* Claims about calculateValidQuantity.  The entry aiLog[1] is the first     *)
(* item of the last response or file: its validation read the current line. *)

\* the quantity after the minimum, the increment and the maximum, as the
\* rules are stated
AfterMinimum(p, q) == IF q < MinRule(p) THEN MinRule(p) ELSE q

AfterIncrement(p, q) ==
    IF IncRule(p) > 1 /\ AfterMinimum(p, q) % IncRule(p) # 0
    THEN ((AfterMinimum(p, q) \div IncRule(p)) + 1) * IncRule(p)
    ELSE AfterMinimum(p, q)

AfterMaximum(p, q) ==
    IF AfterIncrement(p, q) > MaxRule(p) THEN MaxRule(p) ELSE AfterIncrement(p, q)

AfterStock(p, q, k) == IF AfterMaximum(p, q) > k THEN k ELSE AfterMaximum(p, q)

\* the corrections applied to a request q with k left in stock, in the order
\* stated, each with the number its reason names
CorrectionsOf(p, q, k) ==
    (IF AfterMinimum(p, q) # q THEN <<[rule |-> "min", n |-> MinRule(p)]>> ELSE <<>>)
    \o (IF AfterIncrement(p, q) # AfterMinimum(p, q)
        THEN <<[rule |-> "inc", n |-> IncRule(p)]>> ELSE <<>>)
    \o (IF AfterMaximum(p, q) # AfterIncrement(p, q)
        THEN <<[rule |-> "max", n |-> MaxRule(p)]>> ELSE <<>>)
    \o (IF AfterStock(p, q, k) # AfterMaximum(p, q)
        THEN <<[rule |-> "stock", n |-> k]>> ELSE <<>>)

\* the rule a reason speaks of
RuleOfReason(r) ==
    CASE r.text = "Minimum quantity is" -> "min"
      [] r.text = "Adjusted to multiple of" -> "inc"
      [] r.text = "Maximum allowed per order is" -> "max"
      [] r.text \in {"Limited by available stock", "Added all available stock"} -> "stock"
      [] OTHER -> "none"

ReasonsAsCorrections(reasons) ==
    [j \in 1..Len(reasons) |-> [rule |-> RuleOfReason(reasons[j]), n |-> reasons[j].n]]

\* C11: calculateValidQuantity corrects in the order minimum, increment
\* (rounding up, only when the increment is above 1), maximum, available
\* stock, each on the result of the one before, and its reasons are exactly
\* the corrections applied, one each, in that order.
C11_CorrectionOrder ==
    (aiLog # <<>> /\ aiLog[1].validation # <<>>) =>
        LET e == aiLog[1]
            p == ItemProduct(e)
            q == e.requested[1]
        IN  /\ e.validation[1].finalQty = AfterStock(p, q, StockLeft(e))
            /\ ReasonsAsCorrections(e.validation[1].reasons) = CorrectionsOf(p, q, StockLeft(e))

\* C11 witness: minimum 5, maximum 100, increment 5, stock 200, request 3:
\* quantity 5 with the single reason 'Minimum quantity is 5'.
C11_Witness ==
    /\ aiLog # <<>>
    /\ aiLog[1].validation # <<>>
    /\ ItemProduct(aiLog[1]).minQty = 5
    /\ ItemProduct(aiLog[1]).maxQty = 100
    /\ ItemProduct(aiLog[1]).increment = 5
    /\ ItemProduct(aiLog[1]).stock = <<200>>
    /\ aiLog[1].item.action = "add"
    /\ aiLog[1].requested = <<3>>
    /\ aiLog[1].validation[1].finalQty = 5
    /\ aiLog[1].validation[1].reasons = <<Reason("Minimum quantity is", 5)>>

\* C12: a requested quantity of 0 or less that reaches calculateValidQuantity,
\* from a chat item or a file item, is not raised to the minimum and adds no
\* quantity.
C12_ZeroNotRaised ==
    (aiLog # <<>> /\ aiLog[1].validation # <<>> /\ aiLog[1].requested[1] <= 0) =>
        /\ \A j \in 1..Len(aiLog[1].validation[1].reasons) :
               RuleOfReason(aiLog[1].validation[1].reasons[j]) # "min"
        /\ aiLog[1].dispatched = <<>>
        /\ aiLog[1].stagedAfter = aiLog[1].stagedBefore

\* C13: when the quantity after minimum, increment and maximum exceeds the
\* stock left k (physical stock less cart less staged, not below 0), the
\* final quantity is k, the last reason is 'Limited by available stock (k)'
\* for a request up to 9,000,000 and 'Added all available stock (k)' for one
\* above, and isAdjusted is true.
C13_StockClamp ==
    (aiLog # <<>> /\ aiLog[1].validation # <<>>) =>
        LET e == aiLog[1]
            v == e.validation[1]
            k == StockLeft(e)
        IN  AfterMaximum(ItemProduct(e), e.requested[1]) > k =>
                /\ v.finalQty = k
                /\ v.reasons # <<>>
                /\ v.reasons[Len(v.reasons)] =
                       Reason(IF e.requested[1] > MaxSentinel THEN "Added all available stock"
                              ELSE "Limited by available stock", k)
                /\ v.isAdjusted

\* C13 witness: minimum 1, maximum 10, increment 1, stock 5, cart 0, add 7:
\* quantity 5, 'Limited by available stock (5)', adjusted.
C13_Witness ==
    /\ aiLog # <<>>
    /\ aiLog[1].validation # <<>>
    /\ ItemProduct(aiLog[1]).minQty = 1
    /\ ItemProduct(aiLog[1]).maxQty = 10
    /\ ItemProduct(aiLog[1]).increment = 1
    /\ ItemProduct(aiLog[1]).stock = <<5>>
    /\ InCartOf(ItemProduct(aiLog[1]).id) = 0
    /\ aiLog[1].stagedBefore = 0
    /\ aiLog[1].item.action = "add"
    /\ aiLog[1].item.quantity = 7
    /\ aiLog[1].validation[1] =
           [finalQty |-> 5, isAdjusted |-> TRUE,
            reasons |-> <<Reason("Limited by available stock", 5)>>]
    /\ aiLog[1].stagedAfter = 5

\* a request that satisfies every rule
SatisfiesRules(p, q, k) ==
    /\ q >= MinRule(p)
    /\ q % IncRule(p) = 0
    /\ q <= MaxRule(p)
    /\ q <= k

\* C14: isAdjusted is true if and only if the final quantity differs from the
\* request or a reason was recorded; a request that satisfies every rule
\* returns isAdjusted false, no reason and the request as final quantity.
C14_IsAdjusted ==
    (aiLog # <<>> /\ aiLog[1].validation # <<>>) =>
        LET e == aiLog[1]
            v == e.validation[1]
        IN  /\ v.isAdjusted <=> (v.finalQty # e.requested[1] \/ v.reasons # <<>>)
            /\ SatisfiesRules(ItemProduct(e), e.requested[1], StockLeft(e))
                   => v = [finalQty |-> e.requested[1], isAdjusted |-> FALSE, reasons |-> <<>>]

\* C14 witness: a request of 2 on a product of maximum 4, increment 2 and
\* stock 5, with 2 staged and 1 in the cart, is returned as it is.
C14_Witness ==
    /\ aiLog # <<>>
    /\ aiLog[1].validation # <<>>
    /\ ItemProduct(aiLog[1]).minQty = 0
    /\ ItemProduct(aiLog[1]).maxQty = 4
    /\ ItemProduct(aiLog[1]).increment = 2
    /\ ItemProduct(aiLog[1]).stock = <<5>>
    /\ InCartOf(ItemProduct(aiLog[1]).id) = 1
    /\ aiLog[1].stagedBefore = 2
    /\ aiLog[1].requested = <<2>>
    /\ aiLog[1].validation[1] = [finalQty |-> 2, isAdjusted |-> FALSE, reasons |-> <<>>]

\* C15: for every item of a response or a file whose validation returns a
\* quantity of 0 or less, no 'addproduct' event is dispatched, the staged
\* quantity is unchanged and 'Could not add' is recorded with the reasons.
C15_CouldNotAdd ==
    \A i \in 1..Len(aiLog) :
        (aiLog[i].validation # <<>> /\ aiLog[i].validation[1].finalQty <= 0) =>
            /\ aiLog[i].dispatched = <<>>
            /\ aiLog[i].stagedAfter = aiLog[i].stagedBefore
            /\ aiLog[i].couldNotAdd
            /\ aiLog[i].validation[1].reasons # <<>>

\* C15 witness: a response and a file each meet a line without stock left.
C15_Witness ==
    /\ aiLog # <<>>
    /\ aiLog[1].item.action \in {"add", "file"}
    /\ aiLog[1].validation # <<>>
    /\ aiLog[1].validation[1].finalQty = 0
    /\ aiLog[1].couldNotAdd
    /\ aiLog[1].stagedBefore > 0

\* C16: an item whose action is 'search' dispatches no 'addproduct' event,
\* whatever its quantity, and a response of such items alone leaves the input
\* quantity map as it was.
C16_SearchNoDelta ==
    [][ /\ \A i \in 1..Len(aiLog') :
               aiLog'[i].item.action = "search" => aiLog'[i].dispatched = <<>>
        /\ (aiLog' # <<>> /\ \A i \in 1..Len(aiLog') : aiLog'[i].item.action = "search")
               => inputQty' = inputQty ]_vars

\* C16 witness: a search item of a quantity above the sentinel on a line in
\* stock with a staged quantity.
C16_Witness ==
    /\ aiLog # <<>>
    /\ aiLog[1].item.action = "search"
    /\ aiLog[1].item.quantity > MaxSentinel
    /\ aiLog[1].displayed
    /\ aiLog[1].stagedBefore > 0
    /\ aiLog[1].stagedAfter = aiLog[1].stagedBefore
    /\ StockLeft(aiLog[1]) > 0

-----------------------------------------------------------------------------
(* Claims about the prices of a line *)

\* the promotional price of a product, <<>> when it has none
PromoPriceOf(id) == IF id \in DOMAIN promoDataMap THEN promoDataMap[id].price ELSE <<>>

\* the quantity a line is priced at: staged plus cart, 1 standing for a
\* staged quantity of zero
EvaluatedOf(line) ==
    (IF StagedOf(line.id) = 0 THEN 1 ELSE StagedOf(line.id)) + InCartOf(line.id)

\* the tier mins of p that q reaches
ReachedMins(p, q) ==
    {p.priceRanges[i].min : i \in {j \in 1..Len(p.priceRanges) : p.priceRanges[j].min <= q}}

GreatestOf(S) == CHOOSE m \in S : \A n \in S : n <= m

\* the price of p at quantity q without promotion: that of the tier of the
\* greatest min not above q, the base price when there is none
PlainPrice(p, q) ==
    IF ReachedMins(p, q) = {} THEN p.unitPrice
    ELSE p.priceRanges[CHOOSE i \in 1..Len(p.priceRanges) :
             p.priceRanges[i].min = GreatestOf(ReachedMins(p, q))].price

\* the promotion is active: a price strictly below a positive base price
PromoActive(p, pp) == pp # <<>> /\ p.unitPrice > 0 /\ pp[1] < p.unitPrice

\* a price times promoPrice / basePrice when the promotion is active, to the
\* cent (4 quarters of a cent)
WithRatio(p, pp, price) ==
    IF PromoActive(p, pp) THEN RoundDiv(price * pp[1], 4 * p.unitPrice) * 4
    ELSE ((price + 2) \div 4) * 4

\* the entries of a ladder marked active
ActiveEntries(line) == {i \in 1..Len(line.tierList) : line.tierList[i].active}

\* the entries of a ladder whose tier is the one selected at quantity q
SelectedEntries(p, q) ==
    IF ReachedMins(p, q) = {} THEN {}
    ELSE {i \in 1..Len(p.priceRanges) : p.priceRanges[i].min = GreatestOf(ReachedMins(p, q))}

\* C17: a promotional price that is absent or not below the base unit price
\* leaves the line unmarked and priced at its tier (or base) price; one below
\* the base price gives a unit price not above that price.
C17_PromoNeverRaises ==
    \A i \in 1..Len(products) :
        LET line == products[i]
            p == RawOf(line)
            pp == PromoPriceOf(line.id)
        IN  IF pp = <<>> \/ pp[1] >= p.unitPrice
            THEN /\ ~line.isPromo
                 /\ line.displayUnitPrice = PlainPrice(p, EvaluatedOf(line))
            ELSE line.displayUnitPrice <= PlainPrice(p, EvaluatedOf(line))

\* C17 witness: a promotional price of 120.00 on a base price of 100.00, 12
\* staged: the line is priced at its 10+ tier of 90.00 and not marked
\* promotional.
C17_Witness ==
    \E i \in 1..Len(products) :
        /\ PromoPriceOf(products[i].id) = <<48000>>
        /\ RawOf(products[i]).unitPrice = 40000
        /\ StagedOf(products[i].id) = 12
        /\ products[i].displayUnitPrice = 36000
        /\ ~products[i].isPromo

\* the evaluated quantities the tier selection is compared over
MaxEvaluated == 22

\* C18: the tier selected is that of the greatest min not above the evaluated
\* quantity, none (and the base price) when the quantity is below every min,
\* and a greater quantity never selects a tier of a lesser min.
C18_TierSelection ==
    \A i \in 1..Len(products) :
        LET line == products[i]
            p == RawOf(line)
        IN  p.priceRanges # <<>> =>
              /\ ActiveEntries(line) = SelectedEntries(p, EvaluatedOf(line))
              /\ ~PromoActive(p, PromoPriceOf(line.id))
                     => line.displayUnitPrice = PlainPrice(p, EvaluatedOf(line))
              /\ \A q1 \in 1..MaxEvaluated, q2 \in 1..MaxEvaluated :
                     (q1 <= q2 /\ TierAt(p.priceRanges, q1) # <<>>)
                         => /\ TierAt(p.priceRanges, q2) # <<>>
                            /\ TierAt(p.priceRanges, q1)[1].min <= TierAt(p.priceRanges, q2)[1].min

\* C18 witness: tiers from 2 and from 5, line priced at quantity 1: no entry
\* is active and the unit price is the base price.
C18_Witness ==
    \E i \in 1..Len(products) :
        /\ Len(products[i].tierList) = 2
        /\ RawOf(products[i]).priceRanges[1].min = 2
        /\ EvaluatedOf(products[i]) = 1
        /\ ActiveEntries(products[i]) = {}
        /\ PromoPriceOf(products[i].id) = <<>>
        /\ RawOf(products[i]).unitPrice = 40000
        /\ products[i].displayUnitPrice = 40000

\* the price and the active entries of a line are those at quantity q
PricedAt(line, q) ==
    /\ line.displayUnitPrice =
           WithRatio(RawOf(line), PromoPriceOf(line.id), PlainPrice(RawOf(line), q))
    /\ RawOf(line).priceRanges # <<>> => ActiveEntries(line) = SelectedEntries(RawOf(line), q)

\* C19 as stated: a line is priced at staged + inCart when the staged
\* quantity is not zero, and at quantity 1 when it is zero, whatever the cart
\* holds.
C19_EntryLevelPrice ==
    \A i \in 1..Len(products) :
        PricedAt(products[i],
                 IF StagedOf(products[i].id) = 0 THEN 1
                 ELSE StagedOf(products[i].id) + InCartOf(products[i].id))

\* C19 amended: a line is priced at staged + inCart when the staged quantity
\* is not zero, and at 1 + inCart when it is zero.
C19_EvaluatedQuantity ==
    \A i \in 1..Len(products) :
        PricedAt(products[i],
                 IF StagedOf(products[i].id) = 0 THEN 1 + InCartOf(products[i].id)
                 ELSE StagedOf(products[i].id) + InCartOf(products[i].id))

\* C19 witness: nothing staged, 9 in the cart, tiers from 1 and from 10: the
\* line shows the 10+ tier at 90.00.
C19_Witness ==
    \E i \in 1..Len(products) :
        /\ StagedOf(products[i].id) = 0
        /\ InCartOf(products[i].id) = 9
        /\ Len(products[i].tierList) = 2
        /\ products[i].tierList[2].key = 10
        /\ products[i].tierList[2].active
        /\ ~products[i].tierList[1].active
        /\ PromoPriceOf(products[i].id) = <<>>
        /\ products[i].displayUnitPrice = 36000

\* C20: in a line with tiers the unit price and every ladder entry carry the
\* same promotion ratio, the active entries are of one tier min at most, and
\* an active entry's price is the line's unit price.
C20_LadderConsistent ==
    \A i \in 1..Len(products) :
        LET line == products[i]
            p == RawOf(line)
            pp == PromoPriceOf(line.id)
        IN  p.priceRanges # <<>> =>
              /\ line.displayUnitPrice = WithRatio(p, pp, PlainPrice(p, EvaluatedOf(line)))
              /\ Len(line.tierList) = Len(p.priceRanges)
              /\ \A j \in 1..Len(line.tierList) :
                     /\ line.tierList[j].price = WithRatio(p, pp, p.priceRanges[j].price)
                     /\ line.tierList[j].active => line.tierList[j].price = line.displayUnitPrice
              /\ Cardinality({line.tierList[j].key : j \in ActiveEntries(line)}) <= 1

\* C20 witness: base price 100.00, tiers 1-9 at 100.00 and 10+ at 90.00,
\* promotional price 80.00, quantity 12: unit price 72.00, the 10+ entry
\* active at 72.00, the 1-9 entry at 80.00.
C20_Witness ==
    \E i \in 1..Len(products) :
        /\ RawOf(products[i]).unitPrice = 40000
        /\ PromoPriceOf(products[i].id) = <<32000>>
        /\ EvaluatedOf(products[i]) = 12
        /\ products[i].isPromo
        /\ products[i].displayUnitPrice = 28800
        /\ Len(products[i].tierList) = 2
        /\ products[i].tierList[1] = [key |-> 1, max |-> 9, price |-> 32000, active |-> FALSE]
        /\ products[i].tierList[2] = [key |-> 10, max |-> 0, price |-> 28800, active |-> TRUE]

\* a price rounded to 2 decimals, the half going up
ToTheCent(price) == ((price + 2) \div 4) * 4

\* the list price of a product: its own, the base unit price when it has none
ListPriceOf(p) == IF p.listPrice # 0 THEN p.listPrice ELSE p.unitPrice

\* C21: showListPrice is true if and only if the list price rounded to 2
\* decimals is strictly greater than the final unit price rounded to 2
\* decimals; the strikethrough is never shown when the two displayed prices
\* are equal.
C21_ShowListPrice ==
    \A i \in 1..Len(products) :
        /\ products[i].showListPrice <=>
               ToTheCent(ListPriceOf(RawOf(products[i]))) > products[i].displayUnitPrice
        /\ products[i].displayListPrice = products[i].displayUnitPrice =>
               ~products[i].showListPrice
-----------------------------------------------------------------------------
(* Claims about the badges, the filter and the defaults of buildGrid *)

\* the badges of a line that carry the key
BadgesOf(line, key) ==
    {j \in 1..Len(line.ruleList) : line.ruleList[j].key = key}

\* the maximum of p is set and below the 999999 of an unbounded line
FiniteMax(p) == p.maxQty # 0 /\ p.maxQty < 999999

\* C24: for every line, 'Min N' is present iff min > 1, 'Max N' iff the
\* maximum is finite, flagged reached iff staged + inCart >= max, 'Inc N' iff
\* increment > 1, each at most once and with the line's number, and the badge
\* list is null (empty here) when none applies.
C24_RuleBadges ==
    \A i \in 1..Len(products) :
        LET line == products[i]
            p == RawOf(line)
            total == StagedOf(line.id) + InCartOf(line.id)
        IN  /\ Cardinality(BadgesOf(line, "min")) = (IF MinRule(p) > 1 THEN 1 ELSE 0)
            /\ Cardinality(BadgesOf(line, "max")) = (IF FiniteMax(p) THEN 1 ELSE 0)
            /\ Cardinality(BadgesOf(line, "inc")) = (IF IncRule(p) > 1 THEN 1 ELSE 0)
            /\ \A j \in BadgesOf(line, "min") :
                   line.ruleList[j].n = MinRule(p) /\ ~line.ruleList[j].reached
            /\ \A j \in BadgesOf(line, "max") :
                   /\ line.ruleList[j].n = p.maxQty
                   /\ line.ruleList[j].reached <=> total >= p.maxQty
            /\ \A j \in BadgesOf(line, "inc") :
                   line.ruleList[j].n = IncRule(p) /\ ~line.ruleList[j].reached
            /\ \A j \in 1..Len(line.ruleList) :
                   line.ruleList[j].key \in {"min", "max", "inc"}
            /\ (line.ruleList = <<>>) <=>
                   (MinRule(p) <= 1 /\ ~FiniteMax(p) /\ IncRule(p) <= 1)

\* C24 witness: a line with the three badges whose staged quantity and cart
\* quantity together are exactly the maximum, each below it, after an edit.
C24_Witness ==
    \E i \in 1..Len(products) :
        /\ Len(products[i].ruleList) = 3
        /\ StagedOf(products[i].id) > 0
        /\ InCartOf(products[i].id) > 0
        /\ StagedOf(products[i].id) + InCartOf(products[i].id) = RawOf(products[i]).maxQty
        /\ products[i].ruleList[2].reached

\* a letter in upper case
UpperOf(c) ==
    CASE c = "a" -> "A"
      [] c = "b" -> "B"
      [] c = "x" -> "X"
      [] OTHER -> c

\* term occurs in text, letters compared without regard to case
ContainsFolded(text, term) ==
    \E k \in 0..(Len(text) - Len(term)) :
        \A j \in 1..Len(term) : UpperOf(text[k + j]) = UpperOf(term[j])

\* the positions of rawProductData whose product matches the search term
MatchingPositions ==
    {k \in 1..Len(rawProductData) :
        \/ ContainsFolded(rawProductData[k].name, searchTerm)
        \/ ContainsFolded(rawProductData[k].sku, searchTerm)}

\* the position of the product of a line in rawProductData
PositionOf(line) == CHOOSE k \in 1..Len(rawProductData) : rawProductData[k].id = line.id

\* C22: the lines buildGrid returns are exactly the products of the raw
\* list whose name or SKU contains the search term whatever the case of the
\* letters, in the order of the raw list; with an empty term, every product
\* of the raw list in order.
C22_SearchFilter ==
    /\ Len(products) = Cardinality(MatchingPositions)
    /\ \A i \in 1..Len(products) : PositionOf(products[i]) \in MatchingPositions
    /\ \A i, j \in 1..Len(products) :
           i < j => PositionOf(products[i]) < PositionOf(products[j])
    /\ searchTerm = <<>> =>
           /\ Len(products) = Len(rawProductData)
           /\ \A i \in 1..Len(products) : products[i].id = rawProductData[i].id

\* C22 witness: the term b shows the line of pB alone, whose name has B, a
\* quantity being staged on the hidden line of pA.
C22_Witness ==
    /\ searchTerm = <<"b">>
    /\ Len(rawProductData) = 2
    /\ Len(products) = 1
    /\ products[1].id = "pB"
    /\ "pA" \in DOMAIN inputQty

\* the lines buildGrid makes of the component's present data
BuiltNow == BuildGrid(rawProductData, inputQty, cartDataMap, promoDataMap, searchTerm)

\* the product has no cart quantity, no promotion and no staged quantity
NoUpstreamData(id) ==
    /\ id \notin DOMAIN cartDataMap
    /\ id \notin DOMAIN promoDataMap
    /\ id \notin DOMAIN inputQty

\* C30: for a product with no entry in the cart quantity map, the promotion
\* map and the input quantity map, buildGrid produces a line with cart
\* quantity 0, no promotion (the price without promotion, no promotion name),
\* an empty staged quantity and isError = false; an absent min, max and
\* increment are 1, 999999 and 1.
C30_MissingAsDefault ==
    \A i \in 1..Len(BuiltNow) :
        LET line == BuiltNow[i]
            p == RawOf(line)
        IN  /\ NoUpstreamData(line.id) =>
                /\ line.cartQty = 0
                /\ ~line.isPromo
                /\ line.promoName = ""
                /\ line.displayUnitPrice = PlainPrice(p, 1)
                /\ line.qtyValue = 0
                /\ ~line.isError
            /\ p.minQty = 0 => line.min = 1
            /\ p.maxQty = 0 => line.max = 999999
            /\ p.increment = 0 => line.inc = 1

\* C30 witness: the grid was built after a cart refresh and an edit of line
\* pA, and shows line pB, which has no rule, no cart quantity, no promotion
\* and no staged quantity.
C30_Witness ==
    /\ products = BuiltNow
    /\ "pA" \in DOMAIN cartDataMap
    /\ "pA" \in DOMAIN inputQty
    /\ \E i \in 1..Len(products) :
           /\ products[i].id = "pB"
           /\ NoUpstreamData("pB")
           /\ products[i].minQty = 0 /\ products[i].maxQty = 0
           /\ products[i].increment = 0

Answered(req) ==
    \/ pending' = Reranked(pending, req)
    \/ pending' = Overtaking(Reranked(pending, req), req.seq)

\* C28: each answer to a cart refresh is followed by a build of the present
\* maps, whether the refresh failed or not, and the answer to a refresh made
\* before one whose answer is already stored does not overwrite the cart
\* quantity map: once every refresh is answered the map is the answer to the
\* latest one made.
C28_LatestRefreshWins ==
    [][\A req \in CartRequests(pending) :
          Answered(req) =>
              /\ products' = BuiltNow'
              /\ req.overtaken => cartDataMap' = cartDataMap]_vars

\* the ids of the products of rawProductData that have the SKU
IdsOfSku(sku) ==
    {rawProductData[k].id : k \in {j \in 1..Len(rawProductData) : rawProductData[j].sku = sku}}

\* the input quantity map with the entry of id alone set to max(0, staged +
\* delta), an entry of 0 being no entry
WithDelta(id, delta) ==
    LET new == IF StagedOf(id) + delta > 0 THEN StagedOf(id) + delta ELSE 0
    IN  [k \in ((DOMAIN inputQty) \ {id}) \cup (IF new > 0 THEN {id} ELSE {}) |->
            IF k = id THEN new ELSE inputQty[k]]

\* the input quantity map a delta for the SKU must leave: untouched when no
\* product of the raw list has the SKU
ExpectedAfterDelta(sku, delta) ==
    IF IdsOfSku(sku) = {} THEN inputQty
    ELSE WithDelta(CHOOSE id \in IdsOfSku(sku) : TRUE, delta)

\* the input quantity map with the entry of id alone set to the quantity
\* typed, a quantity of 0 or less being no entry
WithEdit(id, typed) ==
    [k \in ((DOMAIN inputQty) \ {id}) \cup (IF typed > 0 THEN {id} ELSE {}) |->
        IF k = id THEN typed ELSE inputQty[k]]

\* while an agent request is in flight, an edit of any rendered line goes
\* through: updateQty stores the quantity typed, builds the grid from the
\* maps of that moment and leaves the request in flight
EditsGoThrough ==
    InFlight("askEinstein") # {} =>
        \A id \in LineIds, typed \in TypedMain :
            /\ UpdateQty(Cur, id, typed[1]).inputQty = WithEdit(id, typed[1])
            /\ UpdateQty(Cur, id, typed[1]).products =
                   BuildGrid(rawProductData, WithEdit(id, typed[1]), cartDataMap,
                             promoDataMap, searchTerm)
            /\ UpdateQty(Cur, id, typed[1]).pending = pending

\* handleAiAddProduct on a delta for the SKU changes the entry of that SKU's
\* product alone, builds the grid from the maps it leaves and touches no
\* request in flight
DeltaApplied(sku, delta) ==
    /\ AiAddProduct(Cur, sku, delta).inputQty = ExpectedAfterDelta(sku, delta)
    /\ AiAddProduct(Cur, sku, delta).products =
           IF IdsOfSku(sku) = {} THEN products
           ELSE BuildGrid(rawProductData, ExpectedAfterDelta(sku, delta), cartDataMap,
                          promoDataMap, searchTerm)
    /\ AiAddProduct(Cur, sku, delta).pending = pending

\* what is recorded of the item an answer of the agent brought: the staged
\* quantity of its product after it is max(0, staged before + delta) when a
\* delta was dispatched, and the staged quantity before otherwise
AnswerApplied(e) ==
    e.stagedAfter =
        IF e.dispatched = <<>> THEN e.stagedBefore
        ELSE IF e.stagedBefore + e.dispatched[1] > 0 THEN e.stagedBefore + e.dispatched[1]
        ELSE 0

\* C29: an agent round-trip in flight does not block or overwrite manual
\* edits.  While the request is in flight updateQty goes through on every
\* line and is followed by a build of the maps of that moment; when the
\* delta for a product is applied by handleAiAddProduct, from an answer of the
\* agent or from the button of a card, only that product's entry changes, to
\* max(0, staged + delta) of the staged quantity of that moment, and a delta
\* for a SKU of no product of the raw list changes nothing.
C29_AgentDeltaFrame ==
    /\ EditsGoThrough
    /\ \A ev \in AiEvents : DeltaApplied(ev[1], ev[2])
    /\ \A i \in 1..Len(aiLog) : AnswerApplied(aiLog[i])

\* C29 witness: the agent's answer has just added 1 to the staged quantity 1
\* of pB while 1 stays staged on pA.
C29_Witness ==
    /\ aiLog # <<>>
    /\ aiLog[1].item.sku = <<"S", "2">>
    /\ aiLog[1].dispatched = <<1>>
    /\ aiLog[1].stagedBefore = 1
    /\ StagedOf("pB") = 2
    /\ StagedOf("pA") = 1
    /\ products = BuiltNow

\* C27: in every state where no fetch is outstanding (and so no handler is
\* suspended), the displayed lines are buildGrid applied to the present raw
\* product list, input quantity map, cart quantity map, promotion map and
\* search term.
C27_GridIsBuildOfMaps ==
    NumPending = 0 => products = BuiltNow

\* the quantities of an order's items as a map: per product, the quantity of
\* its last item
OrderQuantities(items) ==
    [k \in {items[i].productId : i \in 1..Len(items)} |->
        items[CHOOSE i \in 1..Len(items) :
                  /\ items[i].productId = k
                  /\ \A j \in (i + 1)..Len(items) : items[j].productId # k].quantity]

\* the entries of `over` laid over those of `under`
LaidOver(under, over) ==
    [k \in (DOMAIN under) \cup (DOMAIN over) |->
        IF k \in DOMAIN over THEN over[k] ELSE under[k]]

\* the step is the arrival of a successful answer of addItemsToCart: the
\* handler goes on to refreshCartSummary
CommitSucceeded ==
    /\ InFlight("addItemsToCart") # {}
    /\ InFlight("addItemsToCart")' = {}
    /\ InFlight("refreshCartSummary")' # {}

\* the step is the arrival of the answer of getOrderProducts
OrderAnswered ==
    /\ InFlight("getOrderProducts") # {}
    /\ InFlight("getOrderProducts")' = {}

\* C25 as stated: the input quantity map is empty once handleSourceChange
\* and the loading of the order it starts have completed, and once
\* handleAddToCart has succeeded.
C25_ResetToEmpty ==
    [][/\ (/\ currentSourceValue' # currentSourceValue
           /\ InFlight("getOrderProducts")' = {}
           /\ InFlight("getAllActiveProducts")' = {}) => inputQty' = EmptyMap
       /\ OrderAnswered => inputQty' = EmptyMap
       /\ CommitSucceeded => inputQty' = EmptyMap]_vars

\* C25: a change of the browsing source drops every quantity staged before
\* it.  When handleSourceChange returns the input quantity map is empty for
\* the catalog and for an order whose items have yet to be fetched, and
\* holds the quantities of the order's items for an order whose items are
\* cached; the answer of getOrderProducts lays the order's quantities over
\* the map of that moment; after a successful addItemsToCart the map is
\* empty.
C25_ResetThenPrefill ==
    [][/\ currentSourceValue' # currentSourceValue =>
              inputQty' =
                  IF /\ currentSourceValue' \in DOMAIN orderItemsCache
                     /\ masterCatalogData # <<>>
                  THEN OrderQuantities(orderItemsCache[currentSourceValue'])
                  ELSE EmptyMap
       /\ OrderAnswered =>
              \/ inputQty' = inputQty
              \/ \E outcome \in OrderOutcomes :
                     /\ outcome # <<>>
                     /\ inputQty' = LaidOver(inputQty, OrderQuantities(outcome[1]))
       /\ CommitSucceeded => inputQty' = EmptyMap]_vars

\* C25 witness: past order o1 has just been selected while 1 was staged on
\* pB and 2 on pA; the map holds the quantities of o1's items, 3 of pA and 0
\* of pB.
C25_Witness ==
    /\ currentSourceValue = "o1"
    /\ inputQty = Put(Put(EmptyMap, "pA", 3), "pB", 0)
    /\ Len(rawProductData) = 2

\* C26: after fetchPromotions has completed successfully, the promotion map
\* holds exactly the entries of that answer: a product that had a promotion
\* in an earlier answer and has none in this one carries none any more.
C26_PromotionsReplaced ==
    [][\A outcome \in PromoOutcomesPromo :
          (outcome # <<>> /\ PromoResponse(outcome)) => promoDataMap' = outcome[1]]_vars


-----------------------------------------------------------------------------
(* The cart commit under overlapping operations *)

\* the quantities of the call of addItemsToCart in flight
Sent == (CHOOSE req \in InFlight("addItemsToCart") : TRUE).itemsMap

\* the number of calls of addItemsToCart in flight
CommitsInFlight ==
    IF InFlight("addItemsToCart") = {} THEN 0
    ELSE BagCardinality([r \in InFlight("addItemsToCart") |-> CopiesIn(r, pending)])

\* the ids of the products of the catalog
CatalogIds == {masterCatalogData[i].id : i \in 1..Len(masterCatalogData)}

\* C31: at most one call of addItemsToCart is in flight at any time; the
\* quantities of a call in flight are positive and there is at least one; and
\* handleAddToCart invoked while isSaving is true or in preview mode makes no
\* call and changes neither the input quantity map nor the cart quantity map.
C31_OneCommitInFlight ==
    [][/\ CommitsInFlight' <= 1
       /\ \A req \in InFlight("addItemsToCart")' :
              /\ DOMAIN req.itemsMap # {}
              /\ \A k \in DOMAIN req.itemsMap : req.itemsMap[k] > 0
       /\ (HandleAddToCart /\ (isSaving \/ isPreview))
              => UNCHANGED <<inputQty, cartDataMap, pending>>]_vars

\* a commit is in flight, the quantities staged since differ from those sent,
\* are positive and without error: the button would send them
C31_Witness ==
    /\ isSaving
    /\ CommitsInFlight = 1
    /\ ItemsMap(inputQty) # EmptyMap
    /\ ItemsMap(inputQty) # Sent
    /\ ~HasErrors(products)

\* the step is the arrival of a rejection of addItemsToCart
CommitFailed ==
    /\ InFlight("addItemsToCart") # {}
    /\ InFlight("addItemsToCart")' = {}
    /\ InFlight("refreshCartSummary")' = {}

\* C32: when addItemsToCart succeeds, the cart quantity of every product sent
\* becomes its previous value (0 if absent) plus the quantity sent, the cart
\* quantities of the other products are unchanged, the input quantity map
\* becomes empty, and so, the staged quantities being those sent, staged plus
\* inCart of every product is what it was.
C32_CommitMovesStaged ==
    [][CommitSucceeded =>
           /\ DOMAIN cartDataMap' = (DOMAIN cartDataMap) \cup (DOMAIN Sent)
           /\ \A k \in DOMAIN Sent : cartDataMap'[k] = InCartOf(k) + Sent[k]
           /\ \A k \in (DOMAIN cartDataMap) \ (DOMAIN Sent) : cartDataMap'[k] = cartDataMap[k]
           /\ inputQty' = EmptyMap
           /\ ItemsMap(inputQty) = Sent
                  => \A k \in CatalogIds :
                         StagedOf(k)' + InCartOf(k)' = StagedOf(k) + InCartOf(k)]_vars

\* a second commit of 2 of pB has succeeded next to a cart quantity of pA
C32_Witness ==
    /\ InFlight("refreshCartSummary") # {}
    /\ inputQty = EmptyMap
    /\ cartDataMap = Put(Put(EmptyMap, "pA", 2), "pB", 4)

\* the number of calls of getCartQuantities in flight
RefreshesInFlight == Cardinality(CartRequests(pending))

\* C33 as stated: when addItemsToCart is rejected the input quantity map and
\* the cart quantity map are left as they are, a cart refresh is started and
\* isSaving is false.
C33_FailedCommitRefreshes ==
    [][CommitFailed =>
           /\ inputQty' = inputQty
           /\ cartDataMap' = cartDataMap
           /\ RefreshesInFlight' = RefreshesInFlight + 1
           /\ ~isSaving']_vars

\* C33: when addItemsToCart is rejected the input quantity map and the cart
\* quantity map are left as they are and isSaving is false; a non-silent cart
\* refresh is started if the product list is not empty, and none otherwise.
C33_FailedCommitKeepsMaps ==
    [][CommitFailed =>
           /\ inputQty' = inputQty
           /\ cartDataMap' = cartDataMap
           /\ ~isSaving'
           /\ IF rawProductData # <<>>
              THEN /\ RefreshesInFlight' = RefreshesInFlight + 1
                   /\ \E r \in CartRequests(pending') \ CartRequests(pending) : ~r.silent
                   /\ isLoading'
              ELSE pending' = pending (-) SetToBag({CHOOSE req \in InFlight("addItemsToCart") : TRUE})]_vars

\* a commit of 2 of pB has failed: the quantity is still staged, the cart
\* quantity map is still empty and the refresh is in flight
C33_Witness ==
    /\ ~isSaving
    /\ isLoading
    /\ inputQty = Put(EmptyMap, "pB", 2)
    /\ cartDataMap = EmptyMap
    /\ \E r \in CartRequests(pending) : ~r.silent
    /\ InFlight("addItemsToCart") = {}

\* C34: when addItemsToCart succeeds while the source is the catalog, where
\* quantities are staged by edits alone, the cart quantity of every product
\* rises by the quantity sent and what was staged beyond the quantity sent,
\* by an edit made while the call was in flight, is still staged.
C34_EditsSurviveCommit ==
    [][(CommitSucceeded /\ currentSourceValue = SOURCE_CATALOG) =>
           \A k \in CatalogIds :
               /\ InCartOf(k)' = InCartOf(k) + Get(Sent, k, 0)
               /\ StagedOf(k)' = Max(0, StagedOf(k) - Get(Sent, k, 0))]_vars

-----------------------------------------------------------------------------
(* The product list under overlapping source changes *)

\* the list loadOrderProducts makes of the cached items of an order
ListOfCached(orderId) ==
    SortByName(OfOrder(masterCatalogData, orderItemsCache[orderId]), FALSE)

\* the list follows the source: the whole catalog for the catalog, the
\* catalog products of the order for an order whose items are cached
ListFollowsSource ==
    /\ currentSourceValue = SOURCE_CATALOG => rawProductData = masterCatalogData
    /\ currentSourceValue \in DOMAIN orderItemsCache
           => rawProductData = ListOfCached(currentSourceValue)

\* the request of getOrderProducts in flight answered by the step
OrderRequest == CHOOSE req \in InFlight("getOrderProducts") : req \notin InFlight("getOrderProducts")'

\* C35: after any step that leaves no request in flight the product list
\* follows the selected source, and the answer of getOrderProducts for an
\* order that is no longer the selected source changes neither the product
\* list nor the input quantity map.
C35_ListFollowsSource ==
    [][/\ NumPending' = 0 => ListFollowsSource'
       /\ (OrderAnswered /\ OrderRequest.orderId # currentSourceValue)
              => UNCHANGED <<rawProductData, inputQty>>]_vars

-----------------------------------------------------------------------------
(* The stock under the additions of the agent *)

\* the stock count of the listed product with this SKU, <<>> when it has none
StockBySku(sku) ==
    IF FindBySku(rawProductData, sku) = <<>> THEN <<>>
    ELSE FindBySku(rawProductData, sku)[1].stock

\* the cart quantity of the listed product with this SKU
InCartBySku(sku) == InCartOf(FindBySku(rawProductData, sku)[1].id)

\* the item added: an 'add' item of a response or an item of a file for which
\* calculateValidQuantity ran and an event was dispatched
AddedBy(entry) ==
    /\ entry.item.action \in {"add", "file"}
    /\ entry.validation # <<>>
    /\ entry.dispatched # <<>>

\* C36: after each item of a response or of a confirmed file that the
\* assistant validated and the grid added, the staged quantity of a product
\* with a stock count S and a cart quantity c is at most max(0, S - c).
C36_NoOversell ==
    \A i \in 1..Len(aiLog) :
        (AddedBy(aiLog[i]) /\ StockBySku(aiLog[i].item.sku) # <<>>)
            => aiLog[i].stagedAfter
                   <= Max(0, StockBySku(aiLog[i].item.sku)[1] - InCartBySku(aiLog[i].item.sku))

-----------------------------------------------------------------------------
(* The stepper buttons of a line *)

\* the least multiple of inc strictly above v
NextMultiple(v, inc) == CHOOSE m \in (v + 1)..(v + inc) : m % inc = 0

\* the greatest multiple of inc strictly below v, for v > 0
PreviousMultiple(v, inc) == CHOOSE m \in (v - inc)..(v - 1) : m % inc = 0

\* the quantity the increment is said to leave on a line staged at v
IncrementedFrom(line, v) ==
    IF v >= line.max THEN v
    ELSE Min(line.max, IF v < line.min THEN line.min ELSE NextMultiple(v, line.inc))

\* C37: handleIncrement on a line staged at v leaves min when v < min and
\* otherwise the next multiple of the increment above v, capped at max when
\* v < max; it leaves v when v >= max; the result is above v when it changes,
\* is at most max when v <= max, and a valid line stays valid.
C37_Increment ==
    [][\A id \in LineIds :
           HandleIncrement(id) =>
               /\ StagedOf(id)' = IncrementedFrom(LineOf(id), StagedOf(id))
               /\ StagedOf(id) < LineOf(id).max => StagedOf(id)' > StagedOf(id)
               /\ StagedOf(id) <= LineOf(id).max => StagedOf(id)' <= LineOf(id).max
               /\ ~LineOf(id).isError => ~LineOf(id)'.isError]_vars

\* the quantity the decrement is said to leave on a line staged at v
DecrementedFrom(line, v) ==
    IF v = 0 THEN 0
    ELSE IF PreviousMultiple(v, line.inc) < line.min THEN 0
    ELSE PreviousMultiple(v, line.inc)

\* C38: handleDecrement on a line staged at v leaves the greatest multiple
\* of the increment strictly below v, or no entry when that multiple is below
\* the minimum; the result is not negative, is below v when v > 0, and is 0
\* or at least the minimum.
C38_Decrement ==
    [][\A id \in LineIds :
           HandleDecrement(id) =>
               /\ StagedOf(id)' = DecrementedFrom(LineOf(id), StagedOf(id))
               /\ StagedOf(id)' = 0 <=> id \notin DOMAIN inputQty'
               /\ StagedOf(id)' >= 0
               /\ StagedOf(id) > 0 => StagedOf(id)' < StagedOf(id)
               /\ StagedOf(id)' = 0 \/ StagedOf(id)' >= LineOf(id).min]_vars

\* a line with increment 3, minimum 2 and maximum 6 staged at 3: what the
\* decrement leaves of 4, 5 and 6
C38_Witness ==
    \E i \in 1..Len(products) :
        /\ products[i].inc = 3
        /\ products[i].min = 2
        /\ products[i].qtyValue = 3
        /\ products[i].max = 6

-----------------------------------------------------------------------------
(* The busy flags *)

\* a call is in flight whose method has set isLoading: loadCatalogProducts,
\* loadOrderProducts or a fetchCartDataAndRebuild that is not silent
LoadingCallInFlight ==
    \/ InFlight("getAllActiveProducts") # {}
    \/ InFlight("getOrderProducts") # {}
    \/ \E req \in InFlight("getCartQuantities") : ~req.silent

\* C39: every call in flight being answered in the end, isSaving set is
\* followed by isSaving cleared, and isLoading set by loadCatalogProducts,
\* loadOrderProducts or a fetchCartDataAndRebuild that is not silent is
\* followed by isLoading cleared, whether the calls succeed or fail.
C39_BusyFlagsClear ==
    /\ isSaving ~> ~isSaving
    /\ (isLoading /\ LoadingCallInFlight) ~> ~isLoading

\* a commit of 2 of pB and then the loading of the order o2 have completed:
\* both flags are cleared and no call is in flight
C39_Witness ==
    /\ currentSourceValue = "o2"
    /\ InCartOf("pB") = 2
    /\ ~isSaving
    /\ ~isLoading
    /\ NumPending = 0
=============================================================================
